---------------------------- MODULE Spec2Model ----------------------------
(***************************************************************************)
(* A model of farcaster-core's protocol core: the commit/reveal messages   *)
(* of protocol_message.rs with the crypto capability traits of crypto.rs,  *)
(* the TxId codec of transaction.rs, the fee setting of fee.rs and the     *)
(* Cancel transaction of cancel.rs.                                        *)
(*                                                                         *)
(* The core is pure and synchronous, so every operation is one action: it  *)
(* draws its inputs, runs the whole function and records inputs and        *)
(* outputs in the component's variable.  Each component has its own        *)
(* specification (SpecCommit, SpecSession, SpecCodec, SpecFee,             *)
(* SpecCancel, SpecSignatures).                                            *)
(***************************************************************************)
EXTENDS Integers, Sequences, FiniteSets, TLC

VARIABLES
    ctx,      \* the Swap context: the Commitment and DleqProof implementations
    cr,       \* the last commit/reveal operation: inputs and outputs
    session,  \* a participant's message-ordering state
    codec,    \* the last TxId codec operation
    fee,      \* the last set_fee call
    cancel_tx, \* the Cancel transaction: the last initialize or finalize call
    sigmsg    \* the last narrowing or signature message conversion

vars == <<ctx, cr, session, codec, fee, cancel_tx, sigmsg>>

(***************************************************************************)
(* Results: Result<(), E> is "Ok" or the error's name; Result<T, E> is a   *)
(* record tagged Ok (with val) or Err (with err).                          *)
(***************************************************************************)
Ok == "Ok"
OkVal(v) == [tag |-> "Ok", val |-> v]
Err(e) == [tag |-> "Err", err |-> e]
None == [tag |-> "None"]
Idle == [op |-> "idle"]

\* The `?` operator over a sequence of Result<(), E>: the first error ends
\* the function, Ok when there is none.
RECURSIVE FirstErr(_)
FirstErr(rs) ==
    IF rs = <<>> THEN Ok
    ELSE IF Head(rs) # Ok THEN Head(rs)
    ELSE FirstErr(Tail(rs))

(***************************************************************************)
(* Bounds and value sets of the commit/reveal component.  verify only      *)
(* compares commitments for equality, so two values per key class are      *)
(* enough to tell an equal key from a different one.                       *)
(***************************************************************************)
NumAddresses == 2
NumProofs == 2

ArKeys == {1, 2}          \* <Ctx::Ar as Keys>::PublicKey
AcKeys == {1, 2}          \* <Ctx::Ac as Keys>::PublicKey
SpKeys == {1, 2}          \* <Ctx::Ac as SharedPrivateKeys<Acc>>::SharedPrivateKey
Addresses == 1..NumAddresses
Proofs == 1..NumProofs
Commitments == {1, 2}     \* Ctx::Commitment
Bytes == {<<k>> : k \in ArKeys \cup AcKeys \cup SpKeys}

DleqTriples == AcKeys \X ArKeys \X Proofs
\* The DleqProof implementations considered, each given by the triples
\* (spend, adaptor, proof) it accepts: none, all, or exactly one.
DleqFamily == {{}, DleqTriples} \cup {{t} : t \in DleqTriples}

(***************************************************************************)
(* crypto.rs: the capability traits.                                       *)
(***************************************************************************)
\* Keys::as_bytes and SharedPrivateKeys::as_bytes: the canonical byte form
\* of a key.
ArAsBytes(key) == <<key>>
AcAsBytes(key) == <<key>>
SpAsBytes(key) == <<key>>

\* The three variants of KeyType.
PublicArbitrating(key) == [variant |-> "PublicArbitrating", key |-> key]
PublicAccordant(key) == [variant |-> "PublicAccordant", key |-> key]
SharedPrivate(key) == [variant |-> "SharedPrivate", key |-> key]

TryIntoArbitratingPubkey(kt) ==
    IF kt.variant = "PublicArbitrating" THEN OkVal(kt.key) ELSE Err("TypeMismatch")

TryIntoAccordantPubkey(kt) ==
    IF kt.variant = "PublicAccordant" THEN OkVal(kt.key) ELSE Err("TypeMismatch")

TryIntoSharedPrivate(kt) ==
    IF kt.variant = "SharedPrivate" THEN OkVal(kt.key) ELSE Err("TypeMismatch")

KeyTypeAsBytes(kt) ==
    CASE kt.variant = "PublicArbitrating" -> ArAsBytes(kt.key)
      [] kt.variant = "PublicAccordant" -> AcAsBytes(kt.key)
      [] kt.variant = "SharedPrivate" -> SpAsBytes(kt.key)

\* Commitment::commit_to: the implementation the context fixes.
CommitTo(value) == ctx.commit_to[value]

ValidateNoCheck(value, commitment) == Ok

\* Commitment::validate (the trait's provided method).
Validate(value, commitment) ==
    IF CommitTo(value) = commitment THEN Ok ELSE "InvalidCommitment"

\* DleqProof::verify: the implementation the context fixes.
DleqVerify(spend, adaptor, proof) ==
    IF <<spend, adaptor, proof>> \in ctx.dleq THEN Ok ELSE "InvalidProof"

(***************************************************************************)
(* protocol_message.rs: Alice's commit and reveal messages.                *)
(***************************************************************************)
CommitAliceFromBundleCopyPaste(bundle) ==
    [buy |-> CommitTo(KeyTypeAsBytes(bundle.buy)),
     cancel |-> CommitTo(KeyTypeAsBytes(bundle.buy)),
     refund |-> CommitTo(KeyTypeAsBytes(bundle.refund)),
     punish |-> CommitTo(KeyTypeAsBytes(bundle.punish)),
     adaptor |-> CommitTo(KeyTypeAsBytes(bundle.adaptor)),
     spend |-> CommitTo(KeyTypeAsBytes(bundle.spend)),
     view |-> CommitTo(KeyTypeAsBytes(bundle.view))]

CommitAliceFromBundle(bundle) ==
    [buy |-> CommitTo(KeyTypeAsBytes(bundle.buy)),
     cancel |-> CommitTo(KeyTypeAsBytes(bundle.cancel)),
     refund |-> CommitTo(KeyTypeAsBytes(bundle.refund)),
     punish |-> CommitTo(KeyTypeAsBytes(bundle.punish)),
     adaptor |-> CommitTo(KeyTypeAsBytes(bundle.adaptor)),
     spend |-> CommitTo(KeyTypeAsBytes(bundle.spend)),
     view |-> CommitTo(KeyTypeAsBytes(bundle.view))]

CommitAliceVerifyNoPunish(commit, reveal) ==
    FirstErr(<<
        Validate(ArAsBytes(reveal.buy), commit.buy),
        Validate(ArAsBytes(reveal.cancel), commit.cancel),
        Validate(ArAsBytes(reveal.refund), commit.refund),
        Validate(ArAsBytes(reveal.adaptor), commit.adaptor),
        Validate(AcAsBytes(reveal.spend), commit.spend),
        Validate(SpAsBytes(reveal.view), commit.view),
        DleqVerify(reveal.spend, reveal.adaptor, reveal.proof) >>)

CommitAliceVerifyProofOfBuy(commit, reveal) ==
    FirstErr(<<
        Validate(ArAsBytes(reveal.buy), commit.buy),
        Validate(ArAsBytes(reveal.cancel), commit.cancel),
        Validate(ArAsBytes(reveal.refund), commit.refund),
        Validate(ArAsBytes(reveal.punish), commit.punish),
        Validate(ArAsBytes(reveal.adaptor), commit.adaptor),
        Validate(AcAsBytes(reveal.spend), commit.spend),
        Validate(SpAsBytes(reveal.view), commit.view),
        DleqVerify(reveal.spend, reveal.buy, reveal.proof) >>)

CommitAliceVerify(commit, reveal) ==
    FirstErr(<<
        Validate(ArAsBytes(reveal.buy), commit.buy),
        Validate(ArAsBytes(reveal.cancel), commit.cancel),
        Validate(ArAsBytes(reveal.refund), commit.refund),
        Validate(ArAsBytes(reveal.punish), commit.punish),
        Validate(ArAsBytes(reveal.adaptor), commit.adaptor),
        Validate(AcAsBytes(reveal.spend), commit.spend),
        Validate(SpAsBytes(reveal.view), commit.view),
        DleqVerify(reveal.spend, reveal.adaptor, reveal.proof) >>)

RevealAliceFromBundle(bundle) ==
    LET buy == TryIntoArbitratingPubkey(bundle.buy)
        cancel == TryIntoArbitratingPubkey(bundle.cancel)
        refund == TryIntoArbitratingPubkey(bundle.refund)
        punish == TryIntoArbitratingPubkey(bundle.punish)
        adaptor == TryIntoArbitratingPubkey(bundle.adaptor)
        spend == TryIntoAccordantPubkey(bundle.spend)
        view == TryIntoSharedPrivate(bundle.view)
        tries == <<buy, cancel, refund, punish, adaptor, spend, view>>
    IN  IF \E i \in 1..Len(tries) : tries[i].tag = "Err"
        THEN Err("TypeMismatch")
        ELSE OkVal([buy |-> buy.val, cancel |-> cancel.val, refund |-> refund.val,
                    punish |-> punish.val, adaptor |-> adaptor.val,
                    address |-> bundle.destination_address,
                    spend |-> spend.val, view |-> view.val,
                    proof |-> bundle.proof])

RevealAliceIntoBundle(reveal) ==
    [buy |-> PublicArbitrating(reveal.buy),
     cancel |-> PublicArbitrating(reveal.cancel),
     refund |-> PublicArbitrating(reveal.refund),
     punish |-> PublicArbitrating(reveal.punish),
     adaptor |-> PublicArbitrating(reveal.adaptor),
     destination_address |-> reveal.address,
     view |-> SharedPrivate(reveal.view),
     spend |-> PublicAccordant(reveal.spend),
     proof |-> reveal.proof,
     cancel_timelock |-> None,
     punish_timelock |-> None,
     fee_strategy |-> None]

CommitAliceVerifyThenBundleUnchecked(commit, reveal) ==
    OkVal(RevealAliceIntoBundle(reveal))

CommitAliceVerifyThenBundle(commit, reveal) ==
    LET v == CommitAliceVerify(commit, reveal)
    IN  IF v # Ok THEN Err(v) ELSE OkVal(RevealAliceIntoBundle(reveal))

(***************************************************************************)
(* protocol_message.rs: Bob's commit and reveal messages (no punish key).  *)
(***************************************************************************)
CommitBobFromBundle(bundle) ==
    [buy |-> CommitTo(KeyTypeAsBytes(bundle.buy)),
     cancel |-> CommitTo(KeyTypeAsBytes(bundle.cancel)),
     refund |-> CommitTo(KeyTypeAsBytes(bundle.refund)),
     adaptor |-> CommitTo(KeyTypeAsBytes(bundle.adaptor)),
     spend |-> CommitTo(KeyTypeAsBytes(bundle.spend)),
     view |-> CommitTo(KeyTypeAsBytes(bundle.view))]

CommitBobVerifyNoView(commit, reveal) ==
    FirstErr(<<
        Validate(ArAsBytes(reveal.buy), commit.buy),
        Validate(ArAsBytes(reveal.cancel), commit.cancel),
        Validate(ArAsBytes(reveal.refund), commit.refund),
        Validate(ArAsBytes(reveal.adaptor), commit.adaptor),
        Validate(AcAsBytes(reveal.spend), commit.spend),
        DleqVerify(reveal.spend, reveal.adaptor, reveal.proof) >>)

CommitBobVerify(commit, reveal) ==
    FirstErr(<<
        Validate(ArAsBytes(reveal.buy), commit.buy),
        Validate(ArAsBytes(reveal.cancel), commit.cancel),
        Validate(ArAsBytes(reveal.refund), commit.refund),
        Validate(ArAsBytes(reveal.adaptor), commit.adaptor),
        Validate(AcAsBytes(reveal.spend), commit.spend),
        Validate(SpAsBytes(reveal.view), commit.view),
        DleqVerify(reveal.spend, reveal.adaptor, reveal.proof) >>)

RevealBobFromBundle(bundle) ==
    LET buy == TryIntoArbitratingPubkey(bundle.buy)
        cancel == TryIntoArbitratingPubkey(bundle.cancel)
        refund == TryIntoArbitratingPubkey(bundle.refund)
        adaptor == TryIntoArbitratingPubkey(bundle.adaptor)
        spend == TryIntoAccordantPubkey(bundle.spend)
        view == TryIntoSharedPrivate(bundle.view)
        tries == <<buy, cancel, refund, adaptor, spend, view>>
    IN  IF \E i \in 1..Len(tries) : tries[i].tag = "Err"
        THEN Err("TypeMismatch")
        ELSE OkVal([buy |-> buy.val, cancel |-> cancel.val, refund |-> refund.val,
                    adaptor |-> adaptor.val,
                    address |-> bundle.refund_address,
                    spend |-> spend.val, view |-> view.val,
                    proof |-> bundle.proof])

RevealBobIntoBundle(reveal) ==
    [buy |-> PublicArbitrating(reveal.buy),
     cancel |-> PublicArbitrating(reveal.cancel),
     refund |-> PublicArbitrating(reveal.refund),
     adaptor |-> PublicArbitrating(reveal.adaptor),
     refund_address |-> reveal.address,
     view |-> SharedPrivate(reveal.view),
     spend |-> PublicAccordant(reveal.spend),
     proof |-> reveal.proof,
     cancel_timelock |-> None,
     punish_timelock |-> None,
     fee_strategy |-> None]

CommitBobVerifyThenBundle(commit, reveal) ==
    LET v == CommitBobVerify(commit, reveal)
    IN  IF v # Ok THEN Err(v) ELSE OkVal(RevealBobIntoBundle(reveal))

(***************************************************************************)
(* The inputs of the commit/reveal operations.                             *)
(***************************************************************************)
AliceKeyFields == {"buy", "cancel", "refund", "punish", "adaptor", "spend", "view"}
BobKeyFields == {"buy", "cancel", "refund", "adaptor", "spend", "view"}
KeyFields(role) == IF role = "Alice" THEN AliceKeyFields ELSE BobKeyFields
RevealFields(role) == KeyFields(role) \cup {"address", "proof"}
Variants == {"PublicArbitrating", "PublicAccordant", "SharedPrivate"}

\* The variant a bundle's key field is built with, and the byte form verify
\* takes of the revealed key.
ExpectedVariant(f) ==
    CASE f = "spend" -> "PublicAccordant"
      [] f = "view" -> "SharedPrivate"
      [] OTHER -> "PublicArbitrating"

RevealBytes(f, key) ==
    CASE f = "spend" -> AcAsBytes(key)
      [] f = "view" -> SpAsBytes(key)
      [] OTHER -> ArAsBytes(key)

\* The bundles a role builds from its own keys: every key of its expected type.
AliceBundles ==
    {[buy |-> PublicArbitrating(kb), cancel |-> PublicArbitrating(kc),
      refund |-> PublicArbitrating(kr), punish |-> PublicArbitrating(kp),
      adaptor |-> PublicArbitrating(ka), destination_address |-> a,
      view |-> SharedPrivate(kv), spend |-> PublicAccordant(ks), proof |-> p,
      cancel_timelock |-> None, punish_timelock |-> None, fee_strategy |-> None] :
        kb \in ArKeys, kc \in ArKeys, kr \in ArKeys, kp \in ArKeys, ka \in ArKeys,
        a \in Addresses, kv \in SpKeys, ks \in AcKeys, p \in Proofs}

BobBundles ==
    {[buy |-> PublicArbitrating(kb), cancel |-> PublicArbitrating(kc),
      refund |-> PublicArbitrating(kr),
      adaptor |-> PublicArbitrating(ka), refund_address |-> a,
      view |-> SharedPrivate(kv), spend |-> PublicAccordant(ks), proof |-> p,
      cancel_timelock |-> None, punish_timelock |-> None, fee_strategy |-> None] :
        kb \in ArKeys, kc \in ArKeys, kr \in ArKeys, ka \in ArKeys,
        a \in Addresses, kv \in SpKeys, ks \in AcKeys, p \in Proofs}

Bundles(role) == IF role = "Alice" THEN AliceBundles ELSE BobBundles

WellTyped(role, bundle) ==
    \A f \in KeyFields(role) : bundle[f].variant = ExpectedVariant(f)

\* The values a reveal field can be changed to.
FieldValues(f) ==
    CASE f = "address" -> Addresses
      [] f = "proof" -> Proofs
      [] f = "spend" -> AcKeys
      [] f = "view" -> SpKeys
      [] OTHER -> ArKeys

CommitFromBundle(role, bundle) ==
    IF role = "Alice" THEN CommitAliceFromBundle(bundle) ELSE CommitBobFromBundle(bundle)

RevealFromBundle(role, bundle) ==
    IF role = "Alice" THEN RevealAliceFromBundle(bundle) ELSE RevealBobFromBundle(bundle)

Verify(role, commit, reveal) ==
    IF role = "Alice" THEN CommitAliceVerify(commit, reveal)
    ELSE CommitBobVerify(commit, reveal)

VerifyThenBundle(role, commit, reveal) ==
    IF role = "Alice" THEN CommitAliceVerifyThenBundle(commit, reveal)
    ELSE CommitBobVerifyThenBundle(commit, reveal)

\* Bundles and reveals whose arbitrating keys are all the same key.
UniformBundles(role) ==
    {b \in Bundles(role) :
        \A f \in KeyFields(role) \ {"spend", "view"} : b[f].key = b.buy.key}

UniformReveals(role) == {RevealFromBundle(role, b).val : b \in UniformBundles(role)}

(***************************************************************************)
(* The commit/reveal operations, one action each.  A call starts from the  *)
(* idle state and records what it was given and what it returned.          *)
(***************************************************************************)
OtherIdle == session = Idle /\ codec = Idle /\ fee = Idle /\ cancel_tx = Idle /\ sigmsg = Idle

InitCommit ==
    /\ ctx \in [commit_to : [Bytes -> Commitments], dleq : DleqFamily]
    /\ cr = Idle
    /\ OtherIdle

\* A role commits to its bundle, then reveals it; the counterparty runs
\* verify and verify_then_bundle on the two messages.
CommitReveal ==
    /\ cr = Idle
    /\ \E role \in {"Alice", "Bob"} : \E b \in Bundles(role) :
        LET commit == CommitFromBundle(role, b)
            reveal == RevealFromBundle(role, b).val
        IN  cr' = [op |-> "CommitReveal", role |-> role, bundle |-> b,
                   commit |-> commit, revealed |-> Ok, reveal |-> reveal,
                   field |-> "none",
                   verify |-> Verify(role, commit, reveal),
                   out |-> VerifyThenBundle(role, commit, reveal)]
    /\ UNCHANGED <<ctx, session, codec, fee, cancel_tx, sigmsg>>

\* As CommitReveal, with one field of the reveal message changed before the
\* counterparty verifies it.
RevealTampered ==
    /\ cr = Idle
    /\ \E role \in {"Alice", "Bob"} : \E b \in UniformBundles(role) :
       \E f \in RevealFields(role) :
        LET commit == CommitFromBundle(role, b)
            sent == RevealFromBundle(role, b).val
        IN  \E v \in FieldValues(f) \ {sent[f]} :
            LET reveal == [sent EXCEPT ![f] = v]
            IN  cr' = [op |-> "RevealTampered", role |-> role, bundle |-> b,
                       commit |-> commit, revealed |-> Ok, reveal |-> reveal,
                       field |-> f,
                       verify |-> Verify(role, commit, reveal),
                       out |-> VerifyThenBundle(role, commit, reveal)]
    /\ UNCHANGED <<ctx, session, codec, fee, cancel_tx, sigmsg>>

\* A bundle with one key of another variant than the field expects: the
\* commit is built, the reveal is not.
RevealIllTyped ==
    /\ cr = Idle
    /\ \E role \in {"Alice", "Bob"} : \E b0 \in UniformBundles(role) :
       \E f \in KeyFields(role) : \E variant \in Variants \ {ExpectedVariant(f)} :
        LET b == [b0 EXCEPT ![f] = [variant |-> variant, key |-> b0[f].key]]
        IN  cr' = [op |-> "RevealIllTyped", role |-> role, bundle |-> b,
                   commit |-> CommitFromBundle(role, b),
                   revealed |-> RevealFromBundle(role, b).err, reveal |-> None,
                   field |-> f, verify |-> "NotCalled", out |-> None]
    /\ UNCHANGED <<ctx, session, codec, fee, cancel_tx, sigmsg>>

\* verify on a commit message and a reveal message received from the
\* network: any commitments against any (uniform) reveal.
VerifyReceived ==
    /\ cr = Idle
    /\ \E role \in {"Alice", "Bob"} :
       \E commit \in [KeyFields(role) -> Commitments] :
       \E reveal \in UniformReveals(role) :
            cr' = [op |-> "VerifyReceived", role |-> role, bundle |-> None,
                   commit |-> commit, revealed |-> Ok, reveal |-> reveal,
                   field |-> "none",
                   verify |-> Verify(role, commit, reveal),
                   out |-> VerifyThenBundle(role, commit, reveal)]
    /\ UNCHANGED <<ctx, session, codec, fee, cancel_tx, sigmsg>>

\* Commitment::validate on any value and any commitment.
ValidateCall ==
    /\ cr = Idle
    /\ \E value \in Bytes : \E commitment \in Commitments :
            cr' = [op |-> "Validate", value |-> value, commitment |-> commitment,
                   result |-> Validate(value, commitment)]
    /\ UNCHANGED <<ctx, session, codec, fee, cancel_tx, sigmsg>>

NextCommit ==
    \/ CommitReveal
    \/ RevealTampered
    \/ RevealIllTyped
    \/ VerifyReceived
    \/ ValidateCall

SpecCommit == InitCommit /\ [][NextCommit]_vars

(***************************************************************************)
(* Properties of the commit/reveal component (under SpecCommit).           *)
(***************************************************************************)
VerifyOps == {"CommitReveal", "RevealTampered", "VerifyReceived"}

\* The revealed key of field f opens the commitment of field f.
Opens(f) == ctx.commit_to[RevealBytes(f, cr.reveal[f])] = cr.commit[f]
AllOpen == \A f \in KeyFields(cr.role) : Opens(f)
ProofAccepted == <<cr.reveal.spend, cr.reveal.adaptor, cr.reveal.proof>> \in ctx.dleq
InjectiveCommit == \A v, w \in Bytes : ctx.commit_to[v] = ctx.commit_to[w] => v = w

C2_MismatchRejected ==
    (cr.op \in VerifyOps /\ ~AllOpen) => cr.verify = "InvalidCommitment"

C2_Witness ==
    /\ cr.op = "VerifyReceived"
    /\ cr.role = "Alice"
    /\ ~Opens("punish")
    /\ \A f \in AliceKeyFields \ {"punish"} : Opens(f)
    /\ ProofAccepted
    /\ cr.verify = "InvalidCommitment"

\* C3: verify returns Ok if and only if every committed field validates and
\* DleqProof::verify(reveal.spend, reveal.adaptor, reveal.proof) succeeds;
\* when all commitments validate and the proof does not, it returns
\* InvalidProof.
C3_VerifyOkIff ==
    cr.op \in VerifyOps =>
        /\ cr.verify = Ok <=> (AllOpen /\ ProofAccepted)
        /\ (AllOpen /\ ~ProofAccepted) => cr.verify = "InvalidProof"

C3_Witness ==
    /\ cr.op = "VerifyReceived"
    /\ cr.role = "Bob"
    /\ AllOpen
    /\ ~ProofAccepted
    /\ ctx.dleq # {}
    /\ cr.verify = "InvalidProof"

\* C4 as claimed: changing any single field of the reveal message (a key,
\* the address or the proof) makes verify fail with InvalidCommitment.  It is
\* stated for the binding commitments (no two byte strings with the same
\* commitment), where every changed key has another commitment, and for the
\* bundles whose own proof verifies.
C4_AnyChangeRejected ==
    (/\ cr.op = "RevealTampered"
     /\ InjectiveCommit
     /\ <<cr.bundle.spend.key, cr.bundle.adaptor.key, cr.bundle.proof>> \in ctx.dleq)
    => cr.verify = "InvalidCommitment"

\* C4, amended: changing one of the committed keys of the reveal message to
\* a key with another commitment makes verify fail with InvalidCommitment;
\* the address and the proof are not committed to: with the address
\* changed verify returns what DleqProof::verify returns for the bundle's
\* own proof, with the proof changed what it returns for the changed proof,
\* never InvalidCommitment.
C4_CommittedChangeRejected ==
    cr.op = "RevealTampered" =>
        /\ (/\ cr.field \in KeyFields(cr.role)
            /\ ctx.commit_to[RevealBytes(cr.field, cr.reveal[cr.field])]
                 # ctx.commit_to[KeyTypeAsBytes(cr.bundle[cr.field])])
           => cr.verify = "InvalidCommitment"
        /\ cr.field = "address" =>
             cr.verify = DleqVerify(cr.bundle.spend.key, cr.bundle.adaptor.key,
                                    cr.bundle.proof)
        /\ cr.field = "proof" =>
             /\ cr.reveal.proof # cr.bundle.proof
             /\ cr.verify = DleqVerify(cr.bundle.spend.key, cr.bundle.adaptor.key,
                                       cr.reveal.proof)

C4_Witness ==
    /\ cr.op = "RevealTampered"
    /\ cr.role = "Bob"
    /\ cr.field = "view"
    /\ InjectiveCommit
    /\ ctx.dleq = DleqTriples
    /\ cr.verify = "InvalidCommitment"

\* C5: verify_then_bundle returns a bundle only when verify succeeds and
\* otherwise exactly verify's error; the bundle carries the revealed keys,
\* address and proof unchanged and has cancel_timelock, punish_timelock and
\* fee_strategy unset.
C5_VerifyThenBundle ==
    cr.op \in VerifyOps =>
        /\ cr.out.tag = "Ok" <=> cr.verify = Ok
        /\ cr.verify # Ok => cr.out = Err(cr.verify)
        /\ cr.out.tag = "Ok" =>
            LET b == cr.out.val
            IN  /\ \A f \in KeyFields(cr.role) : b[f].key = cr.reveal[f]
                /\ WellTyped(cr.role, b)
                /\ cr.role = "Alice" => b.destination_address = cr.reveal.address
                /\ cr.role = "Bob" => b.refund_address = cr.reveal.address
                /\ b.proof = cr.reveal.proof
                /\ b.cancel_timelock = None
                /\ b.punish_timelock = None
                /\ b.fee_strategy = None

C5_Witness ==
    /\ cr.op = "VerifyReceived"
    /\ cr.role = "Alice"
    /\ cr.out.tag = "Ok"
    /\ cr.out.val.spend.key # cr.out.val.view.key
    /\ cr.out.val.destination_address = NumAddresses

\* C6: Commitment::validate(v, c) returns Ok exactly when commit_to(v)
\* equals c and InvalidCommitment otherwise; validate(v, commit_to(v)) is Ok
\* for every byte string v.
C6_ValidateIff ==
    cr.op = "Validate" =>
        /\ cr.result = Ok <=> ctx.commit_to[cr.value] = cr.commitment
        /\ cr.result # Ok => cr.result = "InvalidCommitment"

C6_Witness ==
    /\ cr.op = "Validate"
    /\ ~InjectiveCommit
    /\ cr.result = "InvalidCommitment"

(***************************************************************************)
(* The message ordering of a swap session (the two-phase commit of the     *)
(* protocol messages).  protocol_message.rs declares the messages and the  *)
(* marker trait ProtocolMessage; the receiver that orders them is modelled *)
(* from the protocol's ordering rules: both Commit* before either Reveal*, *)
(* both Reveal* before CoreArbitratingSetup, then                          *)
(* RefundProcedureSignatures, then BuyProcedureSignature; Abort ends the   *)
(* session.                                                                *)
(***************************************************************************)
OrderedMessages ==
    {"CommitAliceParameters", "CommitBobParameters",
     "RevealAliceParameters", "RevealBobParameters",
     "CoreArbitratingSetup", "RefundProcedureSignatures", "BuyProcedureSignature"}

Messages == OrderedMessages \cup {"Abort"}

\* The step of the sequence a message belongs to.
Step(m) ==
    CASE m \in {"CommitAliceParameters", "CommitBobParameters"} -> 1
      [] m \in {"RevealAliceParameters", "RevealBobParameters"} -> 2
      [] m = "CoreArbitratingSetup" -> 3
      [] m = "RefundProcedureSignatures" -> 4
      [] m = "BuyProcedureSignature" -> 5

MessagesOfStep(n) == {m \in OrderedMessages : Step(m) = n}

Seen(accepted) == {accepted[i] : i \in 1..Len(accepted)}

AcceptableOneCommit(accepted, m) ==
    /\ m \notin Seen(accepted)
    /\ \A n \in 1..(Step(m) - 1) : MessagesOfStep(n) \cap Seen(accepted) # {}

\* A message is in sequence when it was not accepted before and every
\* message of the earlier steps was.
Acceptable(accepted, m) ==
    /\ m \notin Seen(accepted)
    /\ \A n \in 1..(Step(m) - 1) : MessagesOfStep(n) \subseteq Seen(accepted)

\* The session after message m is received, and the receiver's answer.
Receive(s, m) ==
    IF m = "Abort"
    THEN [s EXCEPT !.received = m, !.result = Ok, !.aborted = TRUE]
    ELSE IF ~s.aborted /\ Acceptable(s.accepted, m)
         THEN [s EXCEPT !.received = m, !.result = Ok,
                        !.accepted = Append(s.accepted, m)]
         ELSE [s EXCEPT !.received = m, !.result = "ProtocolError"]

InitSession ==
    /\ session = [op |-> "session", accepted |-> <<>>, aborted |-> FALSE,
                  received |-> "none", result |-> "none"]
    /\ ctx = Idle /\ cr = Idle /\ codec = Idle /\ fee = Idle /\ cancel_tx = Idle /\ sigmsg = Idle

ReceiveOrdered ==
    /\ \E m \in OrderedMessages : session' = Receive(session, m)
    /\ UNCHANGED <<ctx, cr, codec, fee, cancel_tx, sigmsg>>

ReceiveAbort ==
    /\ session' = Receive(session, "Abort")
    /\ UNCHANGED <<ctx, cr, codec, fee, cancel_tx, sigmsg>>

NextSession == ReceiveOrdered \/ ReceiveAbort

SpecSession == InitSession /\ [][NextSession]_vars

\* The accepted messages follow the sequence: none twice, and a message of a
\* step only after every message of the steps before it.
InSequence(accepted) ==
    \A j \in 1..Len(accepted) :
        /\ \A i \in 1..(j - 1) : accepted[i] # accepted[j]
        /\ \A n \in 1..(Step(accepted[j]) - 1) :
             MessagesOfStep(n) \subseteq {accepted[i] : i \in 1..(j - 1)}

\* C7: message ordering.  A participant accepts the ordered protocol
\* messages only in the sequence both Commit*, both Reveal*,
\* CoreArbitratingSetup, RefundProcedureSignatures, BuyProcedureSignature; a
\* message received out of this sequence is rejected with a protocol error
\* and the participant's state (the accepted messages, the aborted flag) is
\* not changed.
C7_MessageOrdering ==
    /\ [](InSequence(session.accepted))
    /\ [][\A m \in OrderedMessages :
            (session'.received = m /\ ~InSequence(Append(session.accepted, m)))
            => /\ session'.result = "ProtocolError"
               /\ session'.accepted = session.accepted
               /\ session'.aborted = session.aborted]_vars
    /\ [][session'.result = "ProtocolError"
            => /\ session'.accepted = session.accepted
               /\ session'.aborted = session.aborted]_vars

C7_Witness ==
    /\ session.op = "session"
    /\ session.accepted = <<"CommitBobParameters", "CommitAliceParameters",
                            "RevealAliceParameters">>
    /\ session.received = "CoreArbitratingSetup"
    /\ session.result = "ProtocolError"
    /\ ~session.aborted

(***************************************************************************)
(* transaction.rs: the TxId wire codec.  A reader is the sequence of the   *)
(* bytes it yields; decoding takes the first two and leaves the rest, so   *)
(* readers of at most two bytes show every outcome.                        *)
(***************************************************************************)
TxIds == {"Funding", "Lock", "Buy", "Cancel", "Refund", "Punish"}
Byte == 0..255

\* u16::consensus_encode / consensus_decode: two bytes, little-endian; a
\* reader that ends early is an I/O error.
U16Encode(n) == <<n % 256, n \div 256>>

U16Decode(d) ==
    IF Len(d) < 2 THEN Err("Io") ELSE OkVal(d[1] + 256 * d[2])

TxIdEncodeRefundAsPunish(txid) ==
    CASE txid = "Funding" -> U16Encode(1)
      [] txid = "Lock" -> U16Encode(2)
      [] txid = "Buy" -> U16Encode(3)
      [] txid = "Cancel" -> U16Encode(4)
      [] txid = "Refund" -> U16Encode(6)
      [] txid = "Punish" -> U16Encode(6)

TxIdEncode(txid) ==
    CASE txid = "Funding" -> U16Encode(1)
      [] txid = "Lock" -> U16Encode(2)
      [] txid = "Buy" -> U16Encode(3)
      [] txid = "Cancel" -> U16Encode(4)
      [] txid = "Refund" -> U16Encode(5)
      [] txid = "Punish" -> U16Encode(6)

TxIdDecodeLowByteOnly(d) ==
    LET n == U16Decode(d)
    IN  IF n.tag = "Err" THEN n
        ELSE CASE n.val % 256 = 1 -> OkVal("Funding")
               [] n.val % 256 = 2 -> OkVal("Lock")
               [] n.val % 256 = 3 -> OkVal("Buy")
               [] n.val % 256 = 4 -> OkVal("Cancel")
               [] n.val % 256 = 5 -> OkVal("Refund")
               [] n.val % 256 = 6 -> OkVal("Punish")
               [] OTHER -> Err("UnknownType")

TxIdDecode(d) ==
    LET n == U16Decode(d)
    IN  IF n.tag = "Err" THEN n
        ELSE CASE n.val = 1 -> OkVal("Funding")
               [] n.val = 2 -> OkVal("Lock")
               [] n.val = 3 -> OkVal("Buy")
               [] n.val = 4 -> OkVal("Cancel")
               [] n.val = 5 -> OkVal("Refund")
               [] n.val = 6 -> OkVal("Punish")
               [] OTHER -> Err("UnknownType")

InitCodec ==
    /\ codec = Idle
    /\ ctx = Idle /\ cr = Idle /\ session = Idle /\ fee = Idle /\ cancel_tx = Idle /\ sigmsg = Idle

\* Encode a TxId and decode the bytes written.
EncodeDecode ==
    /\ codec = Idle
    /\ \E txid \in TxIds :
        LET bytes == TxIdEncode(txid)
        IN  codec' = [op |-> "EncodeDecode", txid |-> txid, bytes |-> bytes,
                      decoded |-> TxIdDecode(bytes)]
    /\ UNCHANGED <<ctx, cr, session, fee, cancel_tx, sigmsg>>

\* Decode a TxId from a reader of no, one or two bytes.
DecodeBytes ==
    /\ codec = Idle
    /\ \E bytes \in {<<>>} \cup {<<b>> : b \in Byte} \cup (Byte \X Byte) :
        codec' = [op |-> "DecodeBytes", txid |-> "none", bytes |-> bytes,
                  decoded |-> TxIdDecode(bytes)]
    /\ UNCHANGED <<ctx, cr, session, fee, cancel_tx, sigmsg>>

NextCodec == EncodeDecode \/ DecodeBytes

SpecCodec == InitCodec /\ [][NextCodec]_vars

\* The tag the wire format assigns to a TxId.
WireTag(txid) ==
    CASE txid = "Funding" -> 1
      [] txid = "Lock" -> 2
      [] txid = "Buy" -> 3
      [] txid = "Cancel" -> 4
      [] txid = "Refund" -> 5
      [] txid = "Punish" -> 6

\* C8: TxId codec round trip and tags.  Encoding writes the 2-byte tag 1 for
\* Funding, 2 for Lock, 3 for Buy, 4 for Cancel, 5 for Refund and 6 for
\* Punish (little-endian), the six encodings are pairwise distinct, and
\* decoding the bytes written gives back the TxId.
C8_TxIdRoundTrip ==
    codec.op = "EncodeDecode" =>
        /\ codec.bytes = <<WireTag(codec.txid), 0>>
        /\ \A other \in TxIds \ {codec.txid} : TxIdEncode(other) # codec.bytes
        /\ codec.decoded = OkVal(codec.txid)

C8_Witness ==
    /\ codec.op = "EncodeDecode"
    /\ codec.txid = "Refund"
    /\ codec.bytes = <<5, 0>>
    /\ codec.decoded = OkVal("Refund")

\* C9: TxId wire exhaustiveness.  Decoding any 2-byte value other than 1..6
\* (0 and every value from 7 to 65535) fails with UnknownType and yields no
\* TxId.
C9_UnknownType ==
    (/\ codec.op = "DecodeBytes"
     /\ Len(codec.bytes) = 2
     /\ codec.bytes[1] + 256 * codec.bytes[2] \notin 1..6)
    => codec.decoded = Err("UnknownType")

C9_Witness ==
    /\ codec.op = "DecodeBytes"
    /\ codec.bytes = <<5, 1>>
    /\ codec.decoded = Err("UnknownType")

(***************************************************************************)
(* fee.rs: Fee::set_fee for Bitcoin.  Amounts are unsigned machine         *)
(* integers (u64 in the code); the model keeps the width and scales it     *)
(* down: AmountMax stands for u64::MAX.                                    *)
(***************************************************************************)
AmountMax == 7
MaxRate == 3
MaxWeight == 3
MaxInputs == 2
MaxOutputs == 2

Amounts == 0..AmountMax
Rates == 0..MaxRate
Weights == 1..MaxWeight

\* All sequences over S of length at most n.
SeqsUpTo(S, n) == UNION {[1..k -> S] : k \in 0..n}

\* A PSBT input's witness_utxo: None or the value of the output it spends.
WitnessUtxos == {None} \cup {[tag |-> "Some", value |-> v] : v \in Amounts}

\* The partially signed transactions set_fee is given: the inputs'
\* witness_utxo, the unsigned transaction's output values and its weight.
FeeStrategies ==
    {[kind |-> "Fixed", rate |-> r] : r \in Rates}
        \cup {[kind |-> "Range", start |-> lo, end |-> hi] : lo \in Rates, hi \in Rates}

FeePolitics == {"Aggressive", "Conservative"}

RECURSIVE SumSeq(_)
SumSeq(vs) == IF vs = <<>> THEN 0 ELSE Head(vs) + SumSeq(Tail(vs))

\* Amount::checked_mul and Amount::checked_sub: None when the result does not
\* fit the amount type.
CheckedMul(a, b) ==
    IF a * b > AmountMax THEN None ELSE [tag |-> "Some", value |-> a * b]

CheckedSub(a, b) ==
    IF a < b THEN None ELSE [tag |-> "Some", value |-> a - b]

\* Iterator::sum over the machine integers: an overflowing sum panics in a
\* build with overflow checks and wraps in a build without.
MachineSum(vs, overflow_checks) ==
    IF SumSeq(vs) <= AmountMax THEN [tag |-> "Some", value |-> SumSeq(vs)]
    ELSE IF overflow_checks THEN [tag |-> "Panic"]
    ELSE [tag |-> "Some", value |-> SumSeq(vs) % (AmountMax + 1)]

\* The rate the match on strategy and politic multiplies by the weight.
FeeRateSwapped(strategy, politic) ==
    IF strategy.kind = "Fixed" THEN strategy.rate
    ELSE IF politic = "Aggressive" THEN strategy.end
    ELSE strategy.start

FeeRate(strategy, politic) ==
    IF strategy.kind = "Fixed" THEN strategy.rate
    ELSE IF politic = "Aggressive" THEN strategy.start
    ELSE strategy.end

\* set_fee with the remainder required to be strictly positive.
SetFeeStrictSub(tx, strategy, politic, overflow_checks) ==
    IF \E i \in 1..Len(tx.inputs) : tx.inputs[i] = None
    THEN [res |-> Err("MissingInputsMetadata"), tx |-> tx]
    ELSE
    LET input_sum == MachineSum([i \in 1..Len(tx.inputs) |-> tx.inputs[i].value],
                                overflow_checks)
        fee_amount == CheckedMul(FeeRate(strategy, politic), tx.weight)
    IN  IF input_sum.tag = "Panic" THEN [res |-> [tag |-> "Panic"], tx |-> tx]
        ELSE IF fee_amount = None THEN [res |-> Err("AmountOfFeeTooHigh"), tx |-> tx]
        ELSE IF Len(tx.outputs) # 1 THEN [res |-> Err("MultiUTXOUnsuported"), tx |-> tx]
        ELSE IF input_sum.value <= fee_amount.value
             THEN [res |-> Err("NotEnoughAssets"), tx |-> tx]
             ELSE [res |-> OkVal(fee_amount.value),
                   tx |-> [tx EXCEPT !.outputs[1] = input_sum.value - fee_amount.value]]

\* set_fee summing the inputs that carry a witness_utxo and skipping the
\* others (filter_map in place of the collect into a Result).
SetFeeSkipsUnknownInputs(tx, strategy, politic, overflow_checks) ==
    LET known == SelectSeq(tx.inputs, LAMBDA in : in # None)
        input_sum == MachineSum([i \in 1..Len(known) |-> known[i].value],
                                overflow_checks)
        fee_amount == CheckedMul(FeeRate(strategy, politic), tx.weight)
    IN  IF input_sum.tag = "Panic" THEN [res |-> [tag |-> "Panic"], tx |-> tx]
        ELSE IF fee_amount = None THEN [res |-> Err("AmountOfFeeTooHigh"), tx |-> tx]
        ELSE IF Len(tx.outputs) # 1 THEN [res |-> Err("MultiUTXOUnsuported"), tx |-> tx]
        ELSE LET rest == CheckedSub(input_sum.value, fee_amount.value)
             IN  IF rest = None THEN [res |-> Err("NotEnoughAssets"), tx |-> tx]
                 ELSE [res |-> OkVal(fee_amount.value),
                       tx |-> [tx EXCEPT !.outputs[1] = rest.value]]

\* set_fee writing the output before it knows the remainder exists
\* (a saturating subtraction stored first, the error returned after).
SetFeeWritesBeforeCheck(tx, strategy, politic, overflow_checks) ==
    IF \E i \in 1..Len(tx.inputs) : tx.inputs[i] = None
    THEN [res |-> Err("MissingInputsMetadata"), tx |-> tx]
    ELSE
    LET input_sum == MachineSum([i \in 1..Len(tx.inputs) |-> tx.inputs[i].value],
                                overflow_checks)
        fee_amount == CheckedMul(FeeRate(strategy, politic), tx.weight)
    IN  IF input_sum.tag = "Panic" THEN [res |-> [tag |-> "Panic"], tx |-> tx]
        ELSE IF fee_amount = None THEN [res |-> Err("AmountOfFeeTooHigh"), tx |-> tx]
        ELSE IF Len(tx.outputs) # 1 THEN [res |-> Err("MultiUTXOUnsuported"), tx |-> tx]
        ELSE LET rest == CheckedSub(input_sum.value, fee_amount.value)
             IN  IF rest = None
                 THEN [res |-> Err("NotEnoughAssets"),
                       tx |-> [tx EXCEPT !.outputs[1] = 0]]
                 ELSE [res |-> OkVal(fee_amount.value),
                       tx |-> [tx EXCEPT !.outputs[1] = rest.value]]

\* set_fee counting the outputs before it computes the fee.
SetFeeOutputsFirst(tx, strategy, politic, overflow_checks) ==
    IF \E i \in 1..Len(tx.inputs) : tx.inputs[i] = None
    THEN [res |-> Err("MissingInputsMetadata"), tx |-> tx]
    ELSE
    LET input_sum == MachineSum([i \in 1..Len(tx.inputs) |-> tx.inputs[i].value],
                                overflow_checks)
        fee_amount == CheckedMul(FeeRate(strategy, politic), tx.weight)
    IN  IF input_sum.tag = "Panic" THEN [res |-> [tag |-> "Panic"], tx |-> tx]
        ELSE IF Len(tx.outputs) # 1 THEN [res |-> Err("MultiUTXOUnsuported"), tx |-> tx]
        ELSE IF fee_amount = None THEN [res |-> Err("AmountOfFeeTooHigh"), tx |-> tx]
        ELSE LET rest == CheckedSub(input_sum.value, fee_amount.value)
             IN  IF rest = None THEN [res |-> Err("NotEnoughAssets"), tx |-> tx]
                 ELSE [res |-> OkVal(fee_amount.value),
                       tx |-> [tx EXCEPT !.outputs[1] = rest.value]]

\* set_fee: the result (Ok with the fee, an error, or a panic) and the
\* transaction it leaves.
SetFee(tx, strategy, politic, overflow_checks) ==
    IF \E i \in 1..Len(tx.inputs) : tx.inputs[i] = None
    THEN [res |-> Err("MissingInputsMetadata"), tx |-> tx]
    ELSE
    LET input_sum == MachineSum([i \in 1..Len(tx.inputs) |-> tx.inputs[i].value],
                                overflow_checks)
        weight == tx.weight
        fee_amount == CheckedMul(FeeRate(strategy, politic), weight)
    IN  IF input_sum.tag = "Panic" THEN [res |-> [tag |-> "Panic"], tx |-> tx]
        ELSE IF fee_amount = None THEN [res |-> Err("AmountOfFeeTooHigh"), tx |-> tx]
        ELSE IF Len(tx.outputs) # 1 THEN [res |-> Err("MultiUTXOUnsuported"), tx |-> tx]
        ELSE LET rest == CheckedSub(input_sum.value, fee_amount.value)
             IN  IF rest = None THEN [res |-> Err("NotEnoughAssets"), tx |-> tx]
                 ELSE [res |-> OkVal(fee_amount.value),
                       tx |-> [tx EXCEPT !.outputs[1] = rest.value]]

InitFee ==
    /\ fee = Idle
    /\ ctx = Idle /\ cr = Idle /\ session = Idle /\ codec = Idle /\ cancel_tx = Idle /\ sigmsg = Idle

\* One call of set_fee on any transaction, strategy and politic, in either
\* build.
SetFeeCall ==
    /\ fee = Idle
    /\ \E inputs \in SeqsUpTo(WitnessUtxos, MaxInputs) :
       \E outputs \in SeqsUpTo({AmountMax}, MaxOutputs) :
       \E weight \in Weights :
       \E strategy \in FeeStrategies : \E politic \in FeePolitics :
       \E overflow_checks \in BOOLEAN :
        LET tx == [inputs |-> inputs, outputs |-> outputs, weight |-> weight]
            r == SetFee(tx, strategy, politic, overflow_checks)
        IN  fee' = [op |-> "SetFee", tx |-> tx, strategy |-> strategy,
                    politic |-> politic, res |-> r.res, after |-> r.tx]
    /\ UNCHANGED <<ctx, cr, session, codec, cancel_tx, sigmsg>>

NextFee == SetFeeCall

SpecFee == InitFee /\ [][NextFee]_vars

\* The sum of the inputs' witness_utxo values, as a number.
InputSum(tx) == SumSeq([i \in 1..Len(tx.inputs) |-> tx.inputs[i].value])

\* The rate the fee law resolves: the fixed rate, the range's start (lo) for
\* Aggressive and its end (hi) for Conservative.
Resolve(strategy, politic) ==
    CASE strategy.kind = "Fixed" -> strategy.rate
      [] strategy.kind = "Range" /\ politic = "Aggressive" -> strategy.start
      [] strategy.kind = "Range" /\ politic = "Conservative" -> strategy.end

\* C10: the fee law.  When set_fee succeeds on a transaction with input sum
\* I and weight w, the single output's value is I - rate*w and the fee
\* returned is rate*w, so that sum(inputs) = sum(outputs) + fee, fee >= 0.
C10_FeeLaw ==
    (fee.op = "SetFee" /\ fee.res.tag = "Ok") =>
        LET I == InputSum(fee.tx)
            f == Resolve(fee.strategy, fee.politic) * fee.tx.weight
        IN  /\ Len(fee.after.outputs) = 1
            /\ fee.after.outputs[1] = I - f
            /\ fee.res.val = f
            /\ fee.res.val >= 0
            /\ I = SumSeq(fee.after.outputs) + fee.res.val

\* The fee law holds whenever the input sum fits the amount type.
FeeLawWithoutSumOverflow ==
    (fee.op = "SetFee" /\ fee.res.tag = "Ok" /\ InputSum(fee.tx) <= AmountMax) =>
        LET I == InputSum(fee.tx)
            f == Resolve(fee.strategy, fee.politic) * fee.tx.weight
        IN  /\ fee.after.outputs = <<I - f>>
            /\ fee.res.val = f
            /\ I = SumSeq(fee.after.outputs) + fee.res.val

\* Every input of the transaction carries its witness_utxo.
AllInputsKnown(tx) == \A i \in 1..Len(tx.inputs) : tx.inputs[i] # None

\* C11: fee rate resolution.  The fee set_fee returns is the fixed rate times
\* the weight for a Fixed strategy under either politic, the range's start
\* (lo) times the weight for a Range strategy with Aggressive, and the
\* range's end (hi) times the weight for a Range strategy with Conservative;
\* and the product that is tested for overflow is the same one.
C11_RateResolution ==
    (fee.op = "SetFee" /\ AllInputsKnown(fee.tx) /\ fee.res.tag # "Panic") =>
        LET w == fee.tx.weight
            S == fee.strategy
            rate == CASE S.kind = "Fixed" -> S.rate
                      [] S.kind = "Range" /\ fee.politic = "Aggressive" -> S.start
                      [] S.kind = "Range" /\ fee.politic = "Conservative" -> S.end
        IN  /\ fee.res.tag = "Ok" => fee.res.val = rate * w
            /\ fee.res = Err("AmountOfFeeTooHigh") <=> rate * w > AmountMax

\* A Range whose two ends give different fees, resolved to its start.
C11_Witness ==
    /\ fee.op = "SetFee"
    /\ fee.strategy.kind = "Range"
    /\ fee.strategy.start < fee.strategy.end
    /\ fee.politic = "Aggressive"
    /\ fee.res.tag = "Ok"
    /\ fee.res.val = fee.strategy.start * fee.tx.weight
    /\ fee.res.val > 0

\* The fee of the call: the resolved rate times the weight, as a number.
FeeProduct == Resolve(fee.strategy, fee.politic) * fee.tx.weight

\* C12 as claimed: on a transaction whose inputs all carry a witness_utxo,
\* set_fee fails if and only if rate*w > I, or rate*w overflows, or the
\* transaction does not have exactly one output; in every other case it
\* succeeds.
C12_FailsIff ==
    (fee.op = "SetFee" /\ AllInputsKnown(fee.tx)) =>
        IF \/ FeeProduct > InputSum(fee.tx)
           \/ FeeProduct > AmountMax
           \/ Len(fee.tx.outputs) # 1
        THEN fee.res.tag # "Ok"
        ELSE fee.res.tag = "Ok"

\* The same equivalence holds whenever the input sum fits the amount type.
FailsIffWithoutSumOverflow ==
    (/\ fee.op = "SetFee" /\ AllInputsKnown(fee.tx)
     /\ InputSum(fee.tx) <= AmountMax) =>
        IF \/ FeeProduct > InputSum(fee.tx)
           \/ FeeProduct > AmountMax
           \/ Len(fee.tx.outputs) # 1
        THEN fee.res.tag = "Err"
        ELSE fee.res.tag = "Ok"

\* C13 as claimed: when rate*weight does not fit the amount type, set_fee
\* fails with AmountOfFeeTooHigh and sets no output value.
C13_FeeOverflow ==
    (fee.op = "SetFee" /\ AllInputsKnown(fee.tx) /\ FeeProduct > AmountMax) =>
        /\ fee.res = Err("AmountOfFeeTooHigh")
        /\ fee.after = fee.tx

\* With an overflowing product set_fee never succeeds and never writes an
\* output, and the error it returns, when it returns, is AmountOfFeeTooHigh.
FeeOverflowNeverWraps ==
    (fee.op = "SetFee" /\ AllInputsKnown(fee.tx) /\ FeeProduct > AmountMax) =>
        /\ fee.res.tag # "Ok"
        /\ fee.after = fee.tx
        /\ fee.res.tag = "Err" => fee.res = Err("AmountOfFeeTooHigh")
        /\ InputSum(fee.tx) <= AmountMax => fee.res = Err("AmountOfFeeTooHigh")

\* C14: insufficient funds.  On a transaction with one output, whose inputs
\* all carry a witness_utxo and whose fee rate*w fits the amount type: a fee
\* strictly greater than the input sum makes set_fee fail with
\* NotEnoughAssets, and a fee equal to the input sum makes it succeed and
\* set the output value to 0.
C14_InsufficientFunds ==
    (/\ fee.op = "SetFee" /\ AllInputsKnown(fee.tx)
     /\ FeeProduct <= AmountMax /\ Len(fee.tx.outputs) = 1) =>
        /\ FeeProduct > InputSum(fee.tx) =>
               fee.res = Err("NotEnoughAssets") /\ fee.after = fee.tx
        /\ FeeProduct = InputSum(fee.tx) =>
               fee.res = OkVal(FeeProduct) /\ fee.after.outputs = <<0>>

\* A fee of rate 2 on weight 3 against inputs worth less.
C14_Witness ==
    /\ fee.op = "SetFee" /\ AllInputsKnown(fee.tx)
    /\ Len(fee.tx.outputs) = 1
    /\ Len(fee.tx.inputs) >= 1
    /\ Resolve(fee.strategy, fee.politic) = 2
    /\ fee.tx.weight = 3
    /\ FeeProduct > InputSum(fee.tx)
    /\ fee.res = Err("NotEnoughAssets")

\* The boundary: the fee takes the whole input sum and the output is 0.
C14_WitnessEqual ==
    /\ fee.op = "SetFee" /\ AllInputsKnown(fee.tx)
    /\ FeeProduct = InputSum(fee.tx) /\ FeeProduct > 0
    /\ fee.res.tag = "Ok"
    /\ fee.after.outputs = <<0>>

\* C15 as claimed: on a transaction whose inputs all carry a witness_utxo and
\* whose fee fits the amount type, set_fee fails with MultiUTXOUnsupported
\* whenever the transaction has zero or more than one output, and writes no
\* output value.
C15_MultiUTXO ==
    (/\ fee.op = "SetFee" /\ AllInputsKnown(fee.tx)
     /\ FeeProduct <= AmountMax /\ Len(fee.tx.outputs) # 1) =>
        /\ fee.res = Err("MultiUTXOUnsuported")
        /\ fee.after = fee.tx

\* With zero or several outputs set_fee never succeeds and never writes an
\* output; it returns MultiUTXOUnsupported whenever the input sum fits.
MultiUTXONeverWrites ==
    (fee.op = "SetFee" /\ Len(fee.tx.outputs) # 1) =>
        /\ fee.res.tag # "Ok"
        /\ fee.after = fee.tx
        /\ (/\ AllInputsKnown(fee.tx) /\ FeeProduct <= AmountMax
            /\ InputSum(fee.tx) <= AmountMax) => fee.res = Err("MultiUTXOUnsuported")

\* C16: set_fee fails with MissingInputsMetadata whenever at least one input
\* has no witness_utxo, whatever the other inputs carry, and leaves the
\* transaction as it was.
C16_MissingInputsMetadata ==
    (fee.op = "SetFee" /\ ~AllInputsKnown(fee.tx)) =>
        /\ fee.res = Err("MissingInputsMetadata")
        /\ fee.after = fee.tx

\* Two inputs, the first with a witness_utxo and the second without; the
\* rest of the call would have succeeded.
C16_Witness ==
    /\ fee.op = "SetFee"
    /\ Len(fee.tx.inputs) = 2
    /\ fee.tx.inputs[1] # None /\ fee.tx.inputs[2] = None
    /\ Len(fee.tx.outputs) = 1
    /\ FeeProduct <= fee.tx.inputs[1].value
    /\ fee.res = Err("MissingInputsMetadata")

(***************************************************************************)
(* The Cancel transaction (cancel.rs).  A script is the sequence of its    *)
(* instructions; a public key is pushed as its serialization and read back *)
(* with PublicKey::from_slice, which rejects the byte strings that are not *)
(* the serialization of a key.  Byte vectors of the witness stack are      *)
(* records tagged by what they hold.                                       *)
(***************************************************************************)
NumPubKeys == 2
NumSigs == 2
MaxTail == 3
MaxFinalize == 2

\* The number of instructions finalize skips before the two keys.
KeySkip == 11

PubKeys == 1..NumPubKeys
Sigs == 1..NumSigs

Some(v) == [tag |-> "Some", value |-> v]

\* Instructions: an opcode, or a push of bytes.
Op(code) == [ins |-> "Op", code |-> code]
PushBytes(b) == [ins |-> "PushBytes", data |-> b]

\* The serialization of a public key, and bytes that are no key.
KeyBytes(k) == [enc |-> "pubkey", key |-> k]
NotAKey == [enc |-> "other"]

\* Builder::push_key and Builder::push_int.
PushKey(k) == PushBytes(KeyBytes(k))
PushInt(n) == [ins |-> "PushInt", n |-> n]

\* PublicKey::from_slice.
PublicKeyFromSlice(b) ==
    IF b.enc = "pubkey" THEN OkVal(b.key) ELSE Err("InvalidKey")

\* The items of a witness stack.
EmptyItem == [bytes |-> "empty"]
SigItem(sig) == [bytes |-> "sig", sig |-> sig]
ScriptItem(script) == [bytes |-> "script", script |-> script]

\* BTreeMap::get on the partial signatures, a function from the keys that
\* have a signature to their signature.
SigOf(partial_sigs, key) ==
    IF key \in DOMAIN partial_sigs THEN Some(partial_sigs[key]) ELSE None

\* keys.next() and what finalize makes of it: the signature stored under the
\* key the n-th of the two instructions after the skipped ones pushes.
KeySigReversed(script, partial_sigs, n) ==
    LET at == KeySkip + 3 - n
    IN  IF Len(script) < at THEN Err("MissingPublicKey")
        ELSE IF script[at].ins # "PushBytes" THEN Err("MissingPublicKey")
        ELSE LET key == PublicKeyFromSlice(script[at].data)
             IN  IF key.tag = "Err" THEN Err("MissingPublicKey")
                 ELSE LET sig == SigOf(partial_sigs, key.val)
                      IN  IF sig = None THEN Err("MissingSignature")
                          ELSE OkVal(sig.value)

KeySig(script, partial_sigs, n) ==
    LET at == KeySkip + n
    IN  IF Len(script) < at THEN Err("MissingPublicKey")
        ELSE IF script[at].ins # "PushBytes" THEN Err("MissingPublicKey")
        ELSE LET key == PublicKeyFromSlice(script[at].data)
             IN  IF key.tag = "Err" THEN Err("MissingPublicKey")
                 ELSE LET sig == SigOf(partial_sigs, key.val)
                      IN  IF sig = None THEN Err("MissingSignature")
                          ELSE OkVal(sig.value)

\* Cancel::finalize: the result and the partial transaction it leaves.  The
\* witness vector is built, element by element, before it is assigned.
CancelFinalizeClearsSigs(psbt) ==
    LET in0 == psbt.inputs[1]
    IN  IF in0.witness_script = None
        THEN [res |-> "MissingWitness", psbt |-> psbt]
        ELSE
        LET script == in0.witness_script.value
            sig1 == KeySig(script, in0.partial_sigs, 1)
            sig2 == KeySig(script, in0.partial_sigs, 2)
        IN  IF sig1.tag = "Err" THEN [res |-> sig1.err, psbt |-> psbt]
            ELSE IF sig2.tag = "Err" THEN [res |-> sig2.err, psbt |-> psbt]
            ELSE [res |-> Ok,
                  psbt |-> [psbt EXCEPT
                      !.inputs[1].partial_sigs = <<>>,
                      !.inputs[1].final_script_witness =
                          Some(<<EmptyItem, SigItem(sig1.val), SigItem(sig2.val),
                                 EmptyItem, ScriptItem(script)>>)]]

\* finalize looking at both instructions before looking up a signature.
CancelFinalizeKeysFirst(psbt) ==
    LET in0 == psbt.inputs[1]
    IN  IF in0.witness_script = None
        THEN [res |-> "MissingWitness", psbt |-> psbt]
        ELSE
        LET script == in0.witness_script.value
            sig1 == KeySig(script, in0.partial_sigs, 1)
            sig2 == KeySig(script, in0.partial_sigs, 2)
        IN  IF sig1 = Err("MissingPublicKey") \/ sig2 = Err("MissingPublicKey")
            THEN [res |-> "MissingPublicKey", psbt |-> psbt]
            ELSE IF sig1.tag = "Err" THEN [res |-> sig1.err, psbt |-> psbt]
            ELSE IF sig2.tag = "Err" THEN [res |-> sig2.err, psbt |-> psbt]
            ELSE [res |-> Ok,
                  psbt |-> [psbt EXCEPT
                      !.inputs[1].final_script_witness =
                          Some(<<EmptyItem, SigItem(sig1.val), SigItem(sig2.val),
                                 EmptyItem, ScriptItem(script)>>)]]

CancelFinalize(psbt) ==
    LET in0 == psbt.inputs[1]
    IN  IF in0.witness_script = None
        THEN [res |-> "MissingWitness", psbt |-> psbt]
        ELSE
        LET script == in0.witness_script.value
            sig1 == KeySig(script, in0.partial_sigs, 1)
            sig2 == KeySig(script, in0.partial_sigs, 2)
        IN  IF sig1.tag = "Err" THEN [res |-> sig1.err, psbt |-> psbt]
            ELSE IF sig2.tag = "Err" THEN [res |-> sig2.err, psbt |-> psbt]
            ELSE [res |-> Ok,
                  psbt |-> [psbt EXCEPT
                      !.inputs[1].final_script_witness =
                          Some(<<EmptyItem, SigItem(sig1.val), SigItem(sig2.val),
                                 EmptyItem, ScriptItem(script)>>)]]

\* The timelocks (CSV values), outpoints and output values initialize is
\* given.
MaxTimelock == 2
NumOutPoints == 2
Timelocks == 0..MaxTimelock
OutPoints == 1..NumOutPoints
LockValues == {1, AmountMax}

\* Script::to_v0_p2wsh: OP_0 and the push of the script's SHA-256.
ScriptHash(script) == [enc |-> "sha256", of |-> script]
ToV0P2wsh(script) == <<PushBytes([enc |-> "empty"]), PushBytes(ScriptHash(script))>>

\* The script the Cancel transaction's output pays to, as the Builder calls
\* of initialize push it.
PunishLockScriptSwappedKeys(punish_lock) ==
    << Op("OP_IF"), Op("OP_PUSHNUM_2"),
       PushKey(punish_lock.success.bob), PushKey(punish_lock.success.alice),
       Op("OP_PUSHNUM_2"), Op("OP_CHECKMULTISIG"),
       Op("OP_ELSE"),
       PushInt(punish_lock.timelock), Op("OP_CSV"), Op("OP_DROP"),
       PushKey(punish_lock.failure), Op("OP_CHECKSIG"),
       Op("OP_ENDIF") >>

PunishLockScript(punish_lock) ==
    << Op("OP_IF"), Op("OP_PUSHNUM_2"),
       PushKey(punish_lock.success.alice), PushKey(punish_lock.success.bob),
       Op("OP_PUSHNUM_2"), Op("OP_CHECKMULTISIG"),
       Op("OP_ELSE"),
       PushInt(punish_lock.timelock), Op("OP_CSV"), Op("OP_DROP"),
       PushKey(punish_lock.failure), Op("OP_CHECKSIG"),
       Op("OP_ENDIF") >>

\* The Lock transaction's output script, symmetric with the DataLock values:
\* the buy multisig, or after the timelock the cancel multisig.
LockScript(buy, timelock, cancel) ==
    << Op("OP_IF"), Op("OP_PUSHNUM_2"),
       PushKey(buy.alice), PushKey(buy.bob),
       Op("OP_PUSHNUM_2"), Op("OP_CHECKMULTISIG"),
       Op("OP_ELSE"),
       PushInt(timelock), Op("OP_CSV"), Op("OP_DROP"),
       Op("OP_PUSHNUM_2"),
       PushKey(cancel.alice), PushKey(cancel.bob),
       Op("OP_PUSHNUM_2"), Op("OP_CHECKMULTISIG"),
       Op("OP_ENDIF") >>

DoubleKeys == [alice : PubKeys, bob : PubKeys]

LockScripts ==
    {LockScript([alice |-> 1, bob |-> NumPubKeys], t, c) :
        t \in Timelocks, c \in DoubleKeys}

\* What the Lock transaction's get_consumable_output returns: the outpoint
\* of its output, the output and the output's witness script, or an error.
MetadataOutputs ==
    {[out_point |-> o,
      tx_out |-> [value |-> v, script_pubkey |-> ToV0P2wsh(ws)],
      script_pubkey |-> Some(ws)] :
        o \in OutPoints, v \in LockValues, ws \in LockScripts}

GetConsumableOutput(prev) == prev.consumable

Lockables ==
    {[consumable |-> OkVal(m)] : m \in MetadataOutputs}
        \cup {[consumable |-> Err("MultiUTXOUnsuported")]}

\* The DataLock and DataPunishableLock values; of the DataLock initialize
\* reads the timelock only.
DataLocks == [timelock : Timelocks]
DataPunishableLocks ==
    [timelock : Timelocks, success : DoubleKeys, failure : PubKeys]

\* PartiallySignedTransaction::from_unsigned_tx: an empty map per input and
\* per output; refused when an input already has a script_sig or a witness.
FromUnsignedTx(unsigned_tx) ==
    IF \E i \in 1..Len(unsigned_tx.input) :
           unsigned_tx.input[i].script_sig # <<>> \/ unsigned_tx.input[i].witness # <<>>
    THEN Err("PsbtError")
    ELSE OkVal([unsigned_tx |-> unsigned_tx,
                inputs |-> [i \in 1..Len(unsigned_tx.input) |->
                               [witness_utxo |-> None, witness_script |-> None,
                                sighash_type |-> None, partial_sigs |-> <<>>,
                                final_script_witness |-> None]],
                outputs |-> [i \in 1..Len(unsigned_tx.output) |->
                                [witness_script |-> None]]])

\* Cancelable::initialize for Tx<Cancel>: Ok with the partial transaction,
\* or the error of get_consumable_output or of from_unsigned_tx.
CancelInitialize(prev, lock, punish_lock) ==
    LET script == PunishLockScript(punish_lock)
        consumable == GetConsumableOutput(prev)
    IN  IF consumable.tag = "Err" THEN consumable
        ELSE
        LET output_metadata == consumable.val
            unsigned_tx ==
                [version |-> 2,
                 lock_time |-> 0,
                 input |-> <<[previous_output |-> output_metadata.out_point,
                              script_sig |-> <<>>,
                              sequence |-> lock.timelock,
                              witness |-> <<>>]>>,
                 output |-> <<[value |-> output_metadata.tx_out.value,
                               script_pubkey |-> ToV0P2wsh(script)]>>]
            from_unsigned == FromUnsignedTx(unsigned_tx)
        IN  IF from_unsigned.tag = "Err" THEN from_unsigned
            ELSE OkVal([from_unsigned.val EXCEPT
                     !.inputs[1].witness_utxo = Some(output_metadata.tx_out),
                     !.inputs[1].witness_script = output_metadata.script_pubkey,
                     !.inputs[1].sighash_type = Some("All"),
                     !.outputs[1].witness_script = Some(script)])

\* The witness scripts a Cancel input is finalized with: the Lock scripts,
\* and scripts of KeySkip - 1 or KeySkip opcodes followed by up to MaxTail
\* instructions, each an opcode, the push of a key or a push of other bytes.
TailInstructions ==
    {Op("OP_PUSHNUM_2"), PushBytes(NotAKey)} \cup {PushKey(k) : k \in PubKeys}

WitnessScripts ==
    LockScripts \cup
    {[i \in 1..n |-> Op("OP_NOP")] \o tail :
        n \in (KeySkip - 1)..KeySkip, tail \in SeqsUpTo(TailInstructions, MaxTail)}

\* The partial signature maps: a signature for some of the keys.
PartialSigMaps == UNION {[D -> Sigs] : D \in SUBSET PubKeys}

\* An initialized Cancel transaction, the shell the finalized ones grow from.
BasePsbt ==
    CancelInitialize(
        CHOOSE p \in Lockables : p.consumable.tag = "Ok",
        [timelock |-> 1],
        [timelock |-> MaxTimelock,
         success |-> [alice |-> 1, bob |-> NumPubKeys], failure |-> 1]).val

\* The Cancel transactions finalize is called on: any witness script or none,
\* any partial signatures, and a final witness not yet set or set before.
CancelPsbts ==
    {[BasePsbt EXCEPT !.inputs[1].witness_script = ws,
                      !.inputs[1].partial_sigs = ps,
                      !.inputs[1].final_script_witness = fw] :
        ws \in {None} \cup {Some(w) : w \in WitnessScripts},
        ps \in PartialSigMaps,
        fw \in {None, Some(<<EmptyItem>>)}}

InitCancel ==
    /\ cancel_tx = Idle
    /\ ctx = Idle /\ cr = Idle /\ session = Idle /\ codec = Idle /\ fee = Idle
    /\ sigmsg = Idle

\* One call of initialize.
InitializeCall ==
    /\ cancel_tx = Idle
    /\ \E prev \in Lockables : \E lock \in DataLocks :
       \E punish_lock \in DataPunishableLocks :
        cancel_tx' = [op |-> "Initialize", prev |-> prev, lock |-> lock,
                      punish_lock |-> punish_lock,
                      res |-> CancelInitialize(prev, lock, punish_lock)]
    /\ UNCHANGED <<ctx, cr, session, codec, fee, sigmsg>>

\* The first call of finalize on a Cancel transaction.
FinalizeCall ==
    /\ cancel_tx = Idle
    /\ \E psbt \in CancelPsbts :
        LET r == CancelFinalize(psbt)
        IN  cancel_tx' = [op |-> "Finalize", calls |-> 1, before |-> psbt,
                          before_res |-> "none", res |-> r.res, psbt |-> r.psbt]
    /\ UNCHANGED <<ctx, cr, session, codec, fee, sigmsg>>

\* A further call of finalize on the same transaction, nothing having
\* changed in between.
FinalizeAgain ==
    /\ cancel_tx.op = "Finalize"
    /\ cancel_tx.calls < MaxFinalize
    /\ LET r == CancelFinalize(cancel_tx.psbt)
       IN  cancel_tx' = [op |-> "Finalize", calls |-> cancel_tx.calls + 1,
                         before |-> cancel_tx.psbt, before_res |-> cancel_tx.res,
                         res |-> r.res, psbt |-> r.psbt]
    /\ UNCHANGED <<ctx, cr, session, codec, fee, sigmsg>>

\* The n-th instruction of the script pushes the serialization of a key.
IsKeyPush(script, n) ==
    /\ Len(script) >= n
    /\ script[n].ins = "PushBytes"
    /\ script[n].data.enc = "pubkey"

\* C17: on success, finalize sets input 0's final witness to the five items
\* [empty, sig(K1), sig(K2), empty, witness_script], where K1 and K2 are the
\* keys the 12th and 13th instructions of the witness script push and sig(K)
\* is the partial signature stored under K, in the script's order.
C17_FinalWitness ==
    (cancel_tx.op = "Finalize" /\ cancel_tx.res = Ok) =>
        LET in0 == cancel_tx.before.inputs[1]
        IN  /\ in0.witness_script # None
            /\ LET script == in0.witness_script.value
               IN  /\ IsKeyPush(script, 12) /\ IsKeyPush(script, 13)
                   /\ LET K1 == script[12].data.key
                          K2 == script[13].data.key
                      IN  /\ K1 \in DOMAIN in0.partial_sigs
                          /\ K2 \in DOMAIN in0.partial_sigs
                          /\ cancel_tx.psbt.inputs[1].final_script_witness =
                                 Some(<<EmptyItem,
                                        SigItem(in0.partial_sigs[K1]),
                                        SigItem(in0.partial_sigs[K2]),
                                        EmptyItem,
                                        ScriptItem(script)>>)

\* The script names the greater key first: the witness follows the script,
\* not the order of the keys in the partial signature map.
C17_Witness ==
    /\ cancel_tx.op = "Finalize" /\ cancel_tx.res = Ok /\ cancel_tx.calls = 1
    /\ LET in0 == cancel_tx.before.inputs[1]
           script == in0.witness_script.value
       IN  /\ script[12].data.key > script[13].data.key
           /\ in0.partial_sigs[script[12].data.key]
                  # in0.partial_sigs[script[13].data.key]
           /\ in0.final_script_witness = None
           /\ Len(cancel_tx.psbt.inputs[1].final_script_witness.value) = 5

C19_FinalizeIdempotent ==
    (cancel_tx.op = "Finalize" /\ cancel_tx.calls >= 2 /\ cancel_tx.before_res = Ok) =>
        /\ cancel_tx.res = Ok
        /\ cancel_tx.psbt = cancel_tx.before

\* A second call after a first that succeeded and set the five items.
C19_Witness ==
    /\ cancel_tx.op = "Finalize" /\ cancel_tx.calls = 2
    /\ cancel_tx.before_res = Ok
    /\ cancel_tx.res = Ok
    /\ Len(cancel_tx.psbt.inputs[1].final_script_witness.value) = 5
    /\ cancel_tx.psbt.inputs[1].partial_sigs # <<>>

\* C20: the shell initialize builds.  From a Lock transaction that yields its
\* consumable output, initialize succeeds with a partial transaction of
\* version 2 and lock_time 0, with exactly one input, spending the lock's
\* consumable outpoint with sequence equal to the DataLock timelock, and
\* exactly one output, paying the P2WSH of
\*   IF 2 <success.alice> <success.bob> 2 CHECKMULTISIG
\*   ELSE <punish timelock> CSV DROP <failure> CHECKSIG ENDIF
\* with the value of the consumed output; input 0 carries the witness UTXO,
\* the witness script and the sighash type ALL.
C20_InitializeShell ==
    (cancel_tx.op = "Initialize" /\ cancel_tx.prev.consumable.tag = "Ok") =>
        /\ cancel_tx.res.tag = "Ok"
        /\ LET psbt == cancel_tx.res.val
               tx == psbt.unsigned_tx
               consumed == cancel_tx.prev.consumable.val
               pl == cancel_tx.punish_lock
               script ==
                   << Op("OP_IF"), Op("OP_PUSHNUM_2"),
                      PushBytes(KeyBytes(pl.success.alice)),
                      PushBytes(KeyBytes(pl.success.bob)),
                      Op("OP_PUSHNUM_2"), Op("OP_CHECKMULTISIG"),
                      Op("OP_ELSE"),
                      PushInt(pl.timelock), Op("OP_CSV"), Op("OP_DROP"),
                      PushBytes(KeyBytes(pl.failure)), Op("OP_CHECKSIG"),
                      Op("OP_ENDIF") >>
           IN  /\ tx.version = 2
               /\ tx.lock_time = 0
               /\ Len(tx.input) = 1
               /\ tx.input[1].previous_output = consumed.out_point
               /\ tx.input[1].sequence = cancel_tx.lock.timelock
               /\ Len(tx.output) = 1
               /\ tx.output[1].script_pubkey = ToV0P2wsh(script)
               /\ tx.output[1].value = consumed.tx_out.value
               /\ Len(psbt.inputs) = 1
               /\ psbt.inputs[1].witness_utxo = Some(consumed.tx_out)
               /\ psbt.inputs[1].witness_script # None
               /\ psbt.inputs[1].witness_script = consumed.script_pubkey
               /\ psbt.inputs[1].sighash_type = Some("All")

\* An initialize whose two timelocks differ and whose three punish-lock keys
\* are not all the same, so that each value is seen in its own place.
C20_Witness ==
    /\ cancel_tx.op = "Initialize"
    /\ cancel_tx.res.tag = "Ok"
    /\ cancel_tx.lock.timelock # cancel_tx.punish_lock.timelock
    /\ cancel_tx.punish_lock.success.alice # cancel_tx.punish_lock.success.bob
    /\ cancel_tx.punish_lock.failure # cancel_tx.punish_lock.success.alice
    /\ cancel_tx.res.val.unsigned_tx.input[1].sequence = cancel_tx.lock.timelock
    /\ cancel_tx.res.val.unsigned_tx.output[1].value = AmountMax

\* C21 as claimed: every Cancel transaction initialize builds satisfies
\* timelock(DataLock) < timelock(DataPunishableLock); initialize does not
\* succeed when the cancel timelock is greater than or equal to the punish
\* timelock.
C21_TimelockOrdering ==
    (cancel_tx.op = "Initialize" /\ cancel_tx.res.tag = "Ok") =>
        cancel_tx.lock.timelock < cancel_tx.punish_lock.timelock

\* initialize reads the two timelocks into the sequence and into the script
\* and compares them nowhere: its result depends on the Lock transaction's
\* consumable output alone.
InitializeIgnoresOrdering ==
    cancel_tx.op = "Initialize" =>
        (cancel_tx.res.tag = "Ok" <=> cancel_tx.prev.consumable.tag = "Ok")

(***************************************************************************)
(* Broadcastable (transaction.rs): extract returns a transaction, not a    *)
(* Result, so the only outcomes it has are a transaction and a panic.      *)
(***************************************************************************)

\* The transaction extracted from a partial transaction: the unsigned
\* transaction with each input's final witness, empty where none is set.
ExtractTx(psbt) ==
    [psbt.unsigned_tx EXCEPT !.input =
        [i \in 1..Len(psbt.unsigned_tx.input) |->
            [psbt.unsigned_tx.input[i] EXCEPT !.witness =
                IF psbt.inputs[i].final_script_witness = None THEN <<>>
                ELSE psbt.inputs[i].final_script_witness.value]]]

\* Every input of the partial transaction has its final witness.
Finalized(psbt) ==
    \A i \in 1..Len(psbt.inputs) : psbt.inputs[i].final_script_witness # None

\* Broadcastable::extract: the outcomes its signature allows.  On a
\* finalized transaction it returns the transaction; on one that is not, the
\* implementation either returns the transaction as it stands or panics.
Extract(psbt) ==
    IF Finalized(psbt) THEN {[tag |-> "Tx", tx |-> ExtractTx(psbt)]}
    ELSE {[tag |-> "Tx", tx |-> ExtractTx(psbt)], [tag |-> "Panic"]}

\* finalize_and_extract extracting whatever finalize returned.
FinalizeAndExtractIgnoresError(psbt) ==
    LET f == CancelFinalize(psbt)
    IN  {[finalize_res |-> f.res, psbt |-> f.psbt,
          res |-> IF e.tag = "Panic" THEN e ELSE OkVal(e.tx)] :
             e \in Extract(f.psbt)}

\* Broadcastable::finalize_and_extract: self.finalize()?; Ok(self.extract()).
\* The outcomes: finalize's result, the partial transaction left, and the
\* result returned.
FinalizeAndExtract(psbt) ==
    LET f == CancelFinalize(psbt)
    IN  IF f.res # Ok
        THEN {[finalize_res |-> f.res, psbt |-> f.psbt, res |-> Err(f.res)]}
        ELSE {[finalize_res |-> f.res, psbt |-> f.psbt,
               res |-> IF e.tag = "Panic" THEN e ELSE OkVal(e.tx)] :
                  e \in Extract(f.psbt)}

\* extract on a Cancel transaction: one never finalized, or the one a
\* finalize call has just been made on.
ExtractCall ==
    /\ \/ /\ cancel_tx = Idle
          /\ \E psbt \in CancelPsbts : \E e \in Extract(psbt) :
               cancel_tx' = [op |-> "Extract", after_finalize |-> "none",
                             before |-> psbt, res |-> e]
       \/ /\ cancel_tx.op = "Finalize"
          /\ \E e \in Extract(cancel_tx.psbt) :
               cancel_tx' = [op |-> "Extract", after_finalize |-> cancel_tx.res,
                             before |-> cancel_tx.psbt, res |-> e]
    /\ UNCHANGED <<ctx, cr, session, codec, fee, sigmsg>>

\* One call of finalize_and_extract.
FinalizeAndExtractCall ==
    /\ cancel_tx = Idle
    /\ \E psbt \in CancelPsbts : \E r \in FinalizeAndExtract(psbt) :
         cancel_tx' = [op |-> "FinalizeAndExtract", before |-> psbt,
                       finalize_res |-> r.finalize_res, psbt |-> r.psbt,
                       res |-> r.res]
    /\ UNCHANGED <<ctx, cr, session, codec, fee, sigmsg>>

NextCancel ==
    \/ InitializeCall
    \/ FinalizeCall
    \/ FinalizeAgain
    \/ ExtractCall
    \/ FinalizeAndExtractCall

SpecCancel == InitCancel /\ [][NextCancel]_vars

CancelTypeOK ==
    cancel_tx.op \in {"idle", "Initialize", "Finalize", "Extract", "FinalizeAndExtract"}

\* C22 as claimed: extract called on a transaction that has not been
\* finalized returns an error and emits no broadcastable transaction.
C22_ExtractBeforeFinalize ==
    (cancel_tx.op = "Extract" /\ ~Finalized(cancel_tx.before)) =>
        cancel_tx.res.tag = "Err"

\* extract never returns an error: what it returns is a transaction.
ExtractNeverErr ==
    cancel_tx.op = "Extract" =>
        /\ cancel_tx.res.tag \in {"Tx", "Panic"}
        /\ Finalized(cancel_tx.before) => cancel_tx.res.tag = "Tx"

\* C26: finalize_and_extract calls finalize before extract.  It returns an
\* extracted transaction only when finalize succeeded, and that transaction
\* carries the witness finalize set; when finalize fails it returns
\* finalize's error and extracts nothing.
C26_FinalizeThenExtract ==
    cancel_tx.op = "FinalizeAndExtract" =>
        /\ cancel_tx.res.tag = "Ok" =>
             /\ cancel_tx.finalize_res = Ok
             /\ Len(cancel_tx.res.val.input[1].witness) = 5
             /\ Some(cancel_tx.res.val.input[1].witness)
                    = cancel_tx.psbt.inputs[1].final_script_witness
        /\ cancel_tx.finalize_res # Ok =>
             /\ cancel_tx.res = Err(cancel_tx.finalize_res)
             /\ cancel_tx.psbt = cancel_tx.before
        /\ cancel_tx.finalize_res = Ok => cancel_tx.res.tag = "Ok"

\* finalize fails on a transaction whose final witness was set before, so
\* that extract would have had something to return: the error comes back.
C26_Witness ==
    /\ cancel_tx.op = "FinalizeAndExtract"
    /\ cancel_tx.finalize_res = "MissingSignature"
    /\ cancel_tx.res = Err("MissingSignature")
    /\ cancel_tx.before.inputs[1].final_script_witness # None

\* The other branch: finalize succeeds and the transaction is extracted.
C26_WitnessOk ==
    /\ cancel_tx.op = "FinalizeAndExtract"
    /\ cancel_tx.finalize_res = Ok
    /\ cancel_tx.res.tag = "Ok"
    /\ cancel_tx.before.inputs[1].final_script_witness = None

(***************************************************************************)
(* Signatures and the messages that carry them (crypto.rs,                 *)
(* protocol_message.rs).  A datum::Signature is the signature with the     *)
(* transaction and the role it is tagged with; a datum::Transaction is the *)
(* partial transaction with the transaction it is tagged as.               *)
(***************************************************************************)
NumPartialTxs == 2

AdaptorSigs == 1..NumSigs
PartialTxs == 1..NumPartialTxs
SwapRoles == {"Alice", "Bob"}

\* The three variants of SignatureType.
Adaptor(sig) == [variant |-> "Adaptor", sig |-> sig]
Adapted(sig) == [variant |-> "Adapted", sig |-> sig]
Regular(sig) == [variant |-> "Regular", sig |-> sig]

SignatureTypes ==
    {Adaptor(a) : a \in AdaptorSigs}
        \cup {Adapted(sg) : sg \in Sigs} \cup {Regular(sg) : sg \in Sigs}

KeyTypes ==
    {PublicArbitrating(k) : k \in ArKeys}
        \cup {PublicAccordant(k) : k \in AcKeys} \cup {SharedPrivate(k) : k \in SpKeys}

TryIntoAdaptor(st) ==
    IF st.variant = "Adaptor" THEN OkVal(st.sig) ELSE Err("TypeMismatch")

TryIntoAdapted(st) ==
    IF st.variant = "Adapted" THEN OkVal(st.sig) ELSE Err("TypeMismatch")

\* try_into_regular taking every S::Signature it finds, Adapted included.
TryIntoRegularAnySignature(st) ==
    IF st.variant \in {"Regular", "Adapted"} THEN OkVal(st.sig) ELSE Err("TypeMismatch")

TryIntoRegular(st) ==
    IF st.variant = "Regular" THEN OkVal(st.sig) ELSE Err("TypeMismatch")

\* The six narrowings, by name.
Narrowings ==
    {"try_into_adaptor", "try_into_adapted", "try_into_regular",
     "try_into_arbitrating_pubkey", "try_into_accordant_pubkey",
     "try_into_shared_private"}

SignatureNarrowings == {"try_into_adaptor", "try_into_adapted", "try_into_regular"}

Narrow(f, v) ==
    CASE f = "try_into_adaptor" -> TryIntoAdaptor(v)
      [] f = "try_into_adapted" -> TryIntoAdapted(v)
      [] f = "try_into_regular" -> TryIntoRegular(v)
      [] f = "try_into_arbitrating_pubkey" -> TryIntoArbitratingPubkey(v)
      [] f = "try_into_accordant_pubkey" -> TryIntoAccordantPubkey(v)
      [] f = "try_into_shared_private" -> TryIntoSharedPrivate(v)

\* datum::Signature::new and its signature() accessor.
DatumSignature(tx_id, role, value) == [tx_id |-> tx_id, role |-> role, value |-> value]
SignatureOf(datum) == datum.value

\* datum::Transaction::new_lock / new_cancel / new_refund / new_buy, the tx()
\* accessor and the narrowing to the partial transaction.
DatumTransaction(tx_id, tx) == [tx_id |-> tx_id, tx |-> [variant |-> "Partial", tx |-> tx]]
TxOf(datum) == datum.tx
TryIntoPartialTransaction(tt) ==
    IF tt.variant = "Partial" THEN OkVal(tt.tx) ELSE Err("TypeMismatch")

\* CoreArbitratingSetup: from_bundles, into_core_transactions and
\* into_cosigned_cancel.
CoreArbitratingSetupFromBundles(txs, sig) ==
    LET lock == TryIntoPartialTransaction(TxOf(txs.lock))
        cancel == TryIntoPartialTransaction(TxOf(txs.cancel))
        refund == TryIntoPartialTransaction(TxOf(txs.refund))
        cancel_sig == TryIntoRegular(SignatureOf(sig.cancel_sig))
    IN  IF lock.tag = "Err" THEN lock
        ELSE IF cancel.tag = "Err" THEN cancel
        ELSE IF refund.tag = "Err" THEN refund
        ELSE IF cancel_sig.tag = "Err" THEN cancel_sig
        ELSE OkVal([lock |-> lock.val, cancel |-> cancel.val,
                    refund |-> refund.val, cancel_sig |-> cancel_sig.val])

CoreArbitratingSetupIntoCoreTransactions(m) ==
    [lock |-> DatumTransaction("Lock", m.lock),
     cancel |-> DatumTransaction("Cancel", m.cancel),
     refund |-> DatumTransaction("Refund", m.refund)]

CoreArbitratingSetupIntoCosignedCancel(m) ==
    [cancel_sig |-> DatumSignature("Cancel", "Bob", Regular(m.cancel_sig))]

\* RefundProcedureSignatures: from_bundles, into_cosigned_cancel and
\* into_adaptor_refund.
RefundProcedureSignaturesFromBundles(sig, adaptor_sig) ==
    LET cancel_sig == TryIntoRegular(SignatureOf(sig.cancel_sig))
        refund_adaptor_sig == TryIntoAdaptor(SignatureOf(adaptor_sig.refund_adaptor_sig))
    IN  IF cancel_sig.tag = "Err" THEN cancel_sig
        ELSE IF refund_adaptor_sig.tag = "Err" THEN refund_adaptor_sig
        ELSE OkVal([cancel_sig |-> cancel_sig.val,
                    refund_adaptor_sig |-> refund_adaptor_sig.val])

\* into_cosigned_cancel copied from CoreArbitratingSetup, role and all.
RefundProcedureSignaturesIntoCosignedCancelAsBob(m) ==
    [cancel_sig |-> DatumSignature("Cancel", "Bob", Regular(m.cancel_sig))]

RefundProcedureSignaturesIntoCosignedCancel(m) ==
    [cancel_sig |-> DatumSignature("Cancel", "Alice", Regular(m.cancel_sig))]

RefundProcedureSignaturesIntoAdaptorRefund(m) ==
    [refund_adaptor_sig |->
        DatumSignature("Refund", "Alice", Adaptor(m.refund_adaptor_sig))]

\* BuyProcedureSignature: from_bundle and into_bundle.
BuyProcedureSignatureFromBundle(bundle) ==
    LET buy == TryIntoPartialTransaction(TxOf(bundle.buy))
        buy_adaptor_sig == TryIntoAdaptor(SignatureOf(bundle.buy_adaptor_sig))
    IN  IF buy.tag = "Err" THEN buy
        ELSE IF buy_adaptor_sig.tag = "Err" THEN buy_adaptor_sig
        ELSE OkVal([buy |-> buy.val, buy_adaptor_sig |-> buy_adaptor_sig.val])

BuyProcedureSignatureIntoBundle(m) ==
    [buy |-> DatumTransaction("Buy", m.buy),
     buy_adaptor_sig |-> DatumSignature("Buy", "Bob", Adaptor(m.buy_adaptor_sig))]

\* The messages.
CoreArbitratingSetups ==
    [lock : PartialTxs, cancel : PartialTxs, refund : PartialTxs, cancel_sig : Sigs]
RefundProcedureSignaturesSet == [cancel_sig : Sigs, refund_adaptor_sig : AdaptorSigs]
BuyProcedureSignatures == [buy : PartialTxs, buy_adaptor_sig : AdaptorSigs]

\* The signature datums a bundle may hold: any signature type under the tag
\* of the cancel or of the refund transaction, from either role.
SignatureDatums ==
    {DatumSignature(t, r, v) :
        t \in {"Cancel", "Refund"}, r \in SwapRoles, v \in SignatureTypes}

InitSignatures ==
    /\ sigmsg = Idle
    /\ ctx = Idle /\ cr = Idle /\ session = Idle /\ codec = Idle /\ fee = Idle
    /\ cancel_tx = Idle

\* One narrowing of a SignatureType or of a KeyType.
NarrowCall ==
    /\ sigmsg = Idle
    /\ \E f \in Narrowings :
       \E v \in (IF f \in SignatureNarrowings THEN SignatureTypes ELSE KeyTypes) :
         sigmsg' = [op |-> "Narrow", f |-> f, value |-> v, res |-> Narrow(f, v)]
    /\ UNCHANGED <<ctx, cr, session, codec, fee, cancel_tx>>

\* A CoreArbitratingSetup turned into its two bundles and back.
CoreArbitratingSetupRoundTrip ==
    /\ sigmsg = Idle
    /\ \E m \in CoreArbitratingSetups :
        LET txs == CoreArbitratingSetupIntoCoreTransactions(m)
            cosigned == CoreArbitratingSetupIntoCosignedCancel(m)
        IN  sigmsg' = [op |-> "CoreArbitratingSetup", msg |-> m, txs |-> txs,
                       cosigned |-> cosigned,
                       back |-> CoreArbitratingSetupFromBundles(txs, cosigned)]
    /\ UNCHANGED <<ctx, cr, session, codec, fee, cancel_tx>>

\* A RefundProcedureSignatures turned into its two bundles and back.
RefundProcedureSignaturesRoundTrip ==
    /\ sigmsg = Idle
    /\ \E m \in RefundProcedureSignaturesSet :
        LET cosigned == RefundProcedureSignaturesIntoCosignedCancel(m)
            adaptor == RefundProcedureSignaturesIntoAdaptorRefund(m)
        IN  sigmsg' = [op |-> "RefundProcedureSignatures", msg |-> m,
                       cosigned |-> cosigned, adaptor |-> adaptor,
                       back |-> RefundProcedureSignaturesFromBundles(cosigned, adaptor)]
    /\ UNCHANGED <<ctx, cr, session, codec, fee, cancel_tx>>

\* A BuyProcedureSignature turned into its bundle and back.
BuyProcedureSignatureRoundTrip ==
    /\ sigmsg = Idle
    /\ \E m \in BuyProcedureSignatures :
        LET bundle == BuyProcedureSignatureIntoBundle(m)
        IN  sigmsg' = [op |-> "BuyProcedureSignature", msg |-> m,
                       bundle |-> bundle,
                       back |-> BuyProcedureSignatureFromBundle(bundle)]
    /\ UNCHANGED <<ctx, cr, session, codec, fee, cancel_tx>>

\* RefundProcedureSignatures::from_bundles on any two signature datums.
RefundFromBundlesCall ==
    /\ sigmsg = Idle
    /\ \E sig \in SignatureDatums : \E adaptor_sig \in SignatureDatums :
        sigmsg' = [op |-> "RefundFromBundles",
                   sig |-> [cancel_sig |-> sig],
                   adaptor_sig |-> [refund_adaptor_sig |-> adaptor_sig],
                   res |-> RefundProcedureSignaturesFromBundles(
                               [cancel_sig |-> sig],
                               [refund_adaptor_sig |-> adaptor_sig])]
    /\ UNCHANGED <<ctx, cr, session, codec, fee, cancel_tx>>

NextSignatures ==
    \/ NarrowCall
    \/ CoreArbitratingSetupRoundTrip
    \/ RefundProcedureSignaturesRoundTrip
    \/ BuyProcedureSignatureRoundTrip
    \/ RefundFromBundlesCall

SpecSignatures == InitSignatures /\ [][NextSignatures]_vars

\* C23: each narrowing returns the inner value exactly when the variant is
\* the one it names and fails with TypeMismatch for every other variant; an
\* Adapted signature does not narrow to Regular nor a Regular one to Adapted.
C23_Narrowing ==
    sigmsg.op = "Narrow" =>
        LET named ==
                CASE sigmsg.f = "try_into_adaptor" -> "Adaptor"
                  [] sigmsg.f = "try_into_adapted" -> "Adapted"
                  [] sigmsg.f = "try_into_regular" -> "Regular"
                  [] sigmsg.f = "try_into_arbitrating_pubkey" -> "PublicArbitrating"
                  [] sigmsg.f = "try_into_accordant_pubkey" -> "PublicAccordant"
                  [] sigmsg.f = "try_into_shared_private" -> "SharedPrivate"
        IN  /\ sigmsg.value.variant = named =>
                 /\ sigmsg.res.tag = "Ok"
                 /\ sigmsg.res.val = IF sigmsg.f \in SignatureNarrowings
                                     THEN sigmsg.value.sig ELSE sigmsg.value.key
            /\ sigmsg.value.variant # named => sigmsg.res = Err("TypeMismatch")

\* An Adapted signature refused by try_into_regular.
C23_Witness ==
    /\ sigmsg.op = "Narrow"
    /\ sigmsg.f = "try_into_regular"
    /\ sigmsg.value.variant = "Adapted"
    /\ sigmsg.res = Err("TypeMismatch")

\* The narrowing that succeeds, on the last signature value.
C23_WitnessOk ==
    /\ sigmsg.op = "Narrow"
    /\ sigmsg.f = "try_into_adapted"
    /\ sigmsg.value.variant = "Adapted"
    /\ sigmsg.res = OkVal(NumSigs)

\* C27: the conversions tag the signatures with the sender the protocol
\* fixes: CoreArbitratingSetup::into_cosigned_cancel (Cancel, Bob, Regular),
\* RefundProcedureSignatures::into_cosigned_cancel (Cancel, Alice, Regular),
\* RefundProcedureSignatures::into_adaptor_refund (Refund, Alice, Adaptor),
\* BuyProcedureSignature::into_bundle (Buy, Bob, Adaptor), each around the
\* message's own signature; and converting the bundles back succeeds and
\* returns the message.
C27_SenderTags ==
    /\ sigmsg.op = "CoreArbitratingSetup" =>
         /\ sigmsg.cosigned.cancel_sig.tx_id = "Cancel"
         /\ sigmsg.cosigned.cancel_sig.role = "Bob"
         /\ sigmsg.cosigned.cancel_sig.value.variant = "Regular"
         /\ sigmsg.cosigned.cancel_sig.value.sig = sigmsg.msg.cancel_sig
         /\ sigmsg.back = OkVal(sigmsg.msg)
    /\ sigmsg.op = "RefundProcedureSignatures" =>
         /\ sigmsg.cosigned.cancel_sig.tx_id = "Cancel"
         /\ sigmsg.cosigned.cancel_sig.role = "Alice"
         /\ sigmsg.cosigned.cancel_sig.value.variant = "Regular"
         /\ sigmsg.cosigned.cancel_sig.value.sig = sigmsg.msg.cancel_sig
         /\ sigmsg.adaptor.refund_adaptor_sig.tx_id = "Refund"
         /\ sigmsg.adaptor.refund_adaptor_sig.role = "Alice"
         /\ sigmsg.adaptor.refund_adaptor_sig.value.variant = "Adaptor"
         /\ sigmsg.adaptor.refund_adaptor_sig.value.sig = sigmsg.msg.refund_adaptor_sig
         /\ sigmsg.back = OkVal(sigmsg.msg)
    /\ sigmsg.op = "BuyProcedureSignature" =>
         /\ sigmsg.bundle.buy_adaptor_sig.tx_id = "Buy"
         /\ sigmsg.bundle.buy_adaptor_sig.role = "Bob"
         /\ sigmsg.bundle.buy_adaptor_sig.value.variant = "Adaptor"
         /\ sigmsg.bundle.buy_adaptor_sig.value.sig = sigmsg.msg.buy_adaptor_sig
         /\ sigmsg.back = OkVal(sigmsg.msg)

\* Alice's two signatures, of different values, tagged and read back.
C27_Witness ==
    /\ sigmsg.op = "RefundProcedureSignatures"
    /\ sigmsg.msg.cancel_sig # sigmsg.msg.refund_adaptor_sig
    /\ sigmsg.cosigned.cancel_sig.role = "Alice"
    /\ sigmsg.adaptor.refund_adaptor_sig.value = Adaptor(sigmsg.msg.refund_adaptor_sig)
    /\ sigmsg.back.tag = "Ok"

\* Bob's side: the setup message with three different-looking fields.
C27_WitnessCore ==
    /\ sigmsg.op = "CoreArbitratingSetup"
    /\ sigmsg.msg.lock # sigmsg.msg.cancel
    /\ sigmsg.cosigned.cancel_sig.role = "Bob"
    /\ sigmsg.back = OkVal(sigmsg.msg)

\* from_bundles reads the signature types and not the tags: it narrows the
\* two signatures whatever transaction and role they are tagged with.
FromBundlesReadsTypesOnly ==
    sigmsg.op = "RefundFromBundles" =>
        (sigmsg.res.tag = "Ok" <=>
            /\ sigmsg.sig.cancel_sig.value.variant = "Regular"
            /\ sigmsg.adaptor_sig.refund_adaptor_sig.value.variant = "Adaptor")

\* C24: set_fee is all-or-nothing.  Whenever it returns an error the partial
\* transaction is exactly as it was before the call, and on success nothing
\* but the value of output 0 has changed.
C24_AllOrNothing ==
    fee.op = "SetFee" =>
        /\ fee.res.tag = "Err" =>
             /\ fee.res.err \in {"MissingInputsMetadata", "AmountOfFeeTooHigh",
                                 "MultiUTXOUnsuported", "NotEnoughAssets"}
             /\ fee.after = fee.tx
        /\ fee.res.tag = "Ok" =>
             /\ fee.after.inputs = fee.tx.inputs
             /\ fee.after.weight = fee.tx.weight
             /\ Len(fee.after.outputs) = Len(fee.tx.outputs)
             /\ \A i \in 2..Len(fee.tx.outputs) :
                    fee.after.outputs[i] = fee.tx.outputs[i]

\* The last error, returned where the write was one step away: one output,
\* and the transaction is as it was.
C24_Witness ==
    /\ fee.op = "SetFee"
    /\ fee.res = Err("NotEnoughAssets")
    /\ Len(fee.tx.outputs) = 1
    /\ fee.after = fee.tx

\* The success that changes the value of output 0.
C24_WitnessOk ==
    /\ fee.op = "SetFee"
    /\ fee.res.tag = "Ok"
    /\ fee.after.outputs[1] # fee.tx.outputs[1]

\* The failure conditions of a call, in the order claimed.
FailureConditions ==
    << ~AllInputsKnown(fee.tx),
       FeeProduct > AmountMax,
       Len(fee.tx.outputs) # 1,
       AllInputsKnown(fee.tx) /\ FeeProduct > InputSum(fee.tx) >>

ErrorsInOrder ==
    << "MissingInputsMetadata", "AmountOfFeeTooHigh",
       "MultiUTXOUnsuported", "NotEnoughAssets" >>

FirstFailure == CHOOSE i \in 1..4 :
    FailureConditions[i] /\ \A j \in 1..(i - 1) : ~FailureConditions[j]

\* C25: error precedence.  When failure conditions hold, several at once or
\* one alone, the error set_fee reports is the first of them in the order
\* MissingInputsMetadata, AmountOfFeeTooHigh, MultiUTXOUnsupported,
\* NotEnoughAssets; and set_fee does not return Ok.
C25_ErrorPrecedence ==
    (/\ fee.op = "SetFee" /\ fee.res.tag # "Panic"
     /\ \E i \in 1..4 : FailureConditions[i]) =>
        fee.res = Err(ErrorsInOrder[FirstFailure])

\* Two outputs and a fee product that overflows: AmountOfFeeTooHigh.
C25_Witness ==
    /\ fee.op = "SetFee" /\ AllInputsKnown(fee.tx)
    /\ Len(fee.tx.outputs) = 2
    /\ FeeProduct > AmountMax
    /\ fee.res = Err("AmountOfFeeTooHigh")

\* Two outputs and too little input: MultiUTXOUnsupported.
C25_WitnessMulti ==
    /\ fee.op = "SetFee" /\ AllInputsKnown(fee.tx)
    /\ Len(fee.tx.outputs) = 2
    /\ FeeProduct <= AmountMax /\ FeeProduct > InputSum(fee.tx)
    /\ fee.res = Err("MultiUTXOUnsuported")

\* All four at once cannot be (the fourth needs the inputs known); three can:
\* a missing witness_utxo, an overflowing product and no output.
C25_WitnessThree ==
    /\ fee.op = "SetFee" /\ ~AllInputsKnown(fee.tx)
    /\ FeeProduct > AmountMax /\ Len(fee.tx.outputs) = 0
    /\ fee.res = Err("MissingInputsMetadata")

=============================================================================
